---- MODULE Spec2Model ----
(***************************************************************************)
(* A model of the Tanuki client runtime: the topic schema                  *)
(* (tanuki-common/src/lib.rs), the MQTT client wrapper with its identifier *)
(* allocator and handler dispatch (tanuki/src/lib.rs) and the role-typed   *)
(* entity and capability handles (tanuki/src/capabilities).                *)
(*                                                                         *)
(* Strings are sequences of letters.  The alphabet has the separator "/"   *)
(* and letters that contain no "/"; each reserved word of the schema       *)
(* ("tanuki", "entities", "$meta") is one letter, so a segment equals a    *)
(* reserved word exactly when it is the one-letter string of that letter.  *)
(***************************************************************************)
EXTENDS Integers, Sequences, FiniteSets, TLC

VARIABLES
    t_case,           \* topic harness: "idle", "value" (format then parse) or "string" (parse then format)
    t_value,          \* the Topic value handed to Display
    t_string,         \* the string handed to FromStr
    t_text,           \* the text Display produced
    t_result          \* the Result FromStr produced

VARIABLES
    next_payload_id,  \* TanukiConnection.next_payload_id: AtomicU16
    a_prev,           \* allocator history: the last id returned before the latest call (0: none)
    a_ids,            \* allocator history: the ids the latest call returned, in order
    a_pubs,           \* allocator history: publish calls made
    a_subs,           \* allocator history: the subscription ids the first calls returned
    a_latest          \* allocator history: the subscription id the latest later call returned (0: none)

VARIABLES
    sub_handlers,     \* TanukiConnection.sub_handlers: subscription id -> handler closure
    registering,      \* subscribe_with_handler calls past `subscribe(topic).await?`, handler not inserted yet
    subscribed,       \* the broker's side: subscription id -> topic filter of every SUBSCRIBE sent
    dispatcher,       \* handle(): "running", or the error it returned
    waiters,          \* get(): subscription id -> state of the call awaiting rx
    d_subs,           \* subscribe_with_handler calls made
    d_count,          \* inbound packets taken by recv
    d_last,           \* history: what handle() did with the latest PUBLISH
    d_removed         \* history: subscription ids whose handler handle() removed

VARIABLES
    entities,         \* the entity handles handed out: [id, role]
    capabilities,     \* the capability handles handed out: [entity, capability, role]
    sent              \* the PUBLISH packets the endpoint has sent, in order

VARIABLES
    registry_entities, \* Registry.entities: the ids that have an entity handle stored
    sensors,          \* Registry.sensors: the ids that have a Sensor handle stored
    on_offs,          \* Registry.on_offs
    lights,           \* Registry.lights
    init_calls,       \* history: id -> times the caller's entity_init was invoked
    lookups,          \* history: registry lookups made
    status_published, \* history: id -> `status` meta publishes sent for the entity
    version_published, \* history: <<id, map>> -> `version` meta publishes sent for the capability
    failed_lookups,   \* history: registry lookups that returned Err
    last_lookup       \* history: the latest lookup: was the pair cached, publishes sent, result

VARIABLES
    c_pc,             \* TanukiConnection::connect: "idle" (no call running), "tcp", "attached", "sent"
    c_results,        \* history: one record for every connect call that has returned
    c_first           \* history: the first packet the running call received ("none" before)

VARIABLES
    h_pc,             \* HomeAssistant::connect: "start", "auth_required", "auth", "auth_result", "session", "failed"
    h_error,          \* the Err connect returned ([kind |-> "none"] when none)
    h_log,            \* history: the frames received ("in") and written ("out") on the WebSocket, in order
    h_queue,          \* the unbounded channel tx -> rx of ClientMessage
    h_id,             \* the writer task's AtomicU32
    h_writer,         \* the writer task: "none", "running", "stopped"
    h_reader,         \* the reader task: "none", "running", "panicked"
    h_packets,        \* the channel packet_tx -> packet_rx: server packets forwarded, in order
    h_calls,          \* history: call_service calls made
    h_ids,            \* id harness: the ids next_id returned, in order
    col_obj,          \* Color harness: the JSON object handed to the decoder (key -> kind of value)
    col_result,       \* Color harness: what decoding returned (not called before the call)
    bt_data,          \* BTHome harness: the service-data bytes handed to Object::decode
    bt_result,        \* BTHome harness: what Object::decode returned (not called before the call)
    zha_event,        \* ZHA harness: the zha_event the bridge received
    zha_table,        \* ZHA harness: the translations of the ZhaCommands mapping
    zha_out,          \* ZHA harness: what handling the event did (not done before)
    ps_mapping,       \* propagate_state harness: the CapMapping (self)
    ps_state,         \* propagate_state harness: the SensorState propagated
    ps_out,           \* propagate_state harness: what the call did (not done before)
    cmd_mapping,      \* to_hass harness: the EntityServiceMapping the listener was installed for
    cmd_registered,   \* to_hass harness: the listener's handler is in the handler map
    cmd_log,          \* to_hass harness: history, per message on the command topic: payload and service calls made
    mutex,            \* lock harness: who holds the Mutex around sub_handlers: "free", "handle", "subscribe_with_handler"
    lk_pc,            \* lock harness: handle(): "recv", "lock" (at lock().await), "call" (in handler(event)), "unlock"
    lk_event,         \* lock harness: the event handle() is dispatching
    lk_insert,        \* lock harness: the registration subscribe_with_handler holds the lock for
    br_pc,            \* tanuki-hass bridge(): "connecting", "running" (main loop), "returned" (Err), "panicked"
    br_error,         \* tanuki-hass bridge(): the kind of the Err it returned ("none" when none)
    br_log,           \* tanuki-hass bridge(): history, per packet taken from hass_rx: the packet and what was done
    bb_table,         \* tanuki-bthome bridge(): id_map, key (name or address) -> [id, name]
    bb_devices,       \* tanuki-bthome bridge(): devices, address -> entity id of the cached Sensor handle
    bb_pc,            \* tanuki-bthome bridge(): "running", "returned" (Err), "panicked"
    bb_log,           \* tanuki-bthome bridge(): history, per update: the update and what was published
    r_start,          \* race harness: the counter value the run started from
    r_retry,          \* race harness: the tasks inside next_payload_id whose fetch_add returned 0
    r_phase,          \* race harness: the id the subscribe task allocates next
    r_calls,          \* race harness: history, next_payload_id calls started
    r_ids             \* race harness: history, the ids returned, in the order of their fetch_add

topicVars == <<t_case, t_value, t_string, t_text, t_result>>
allocHist == <<a_prev, a_ids, a_pubs, a_subs, a_latest>>
allocVars == <<next_payload_id, a_prev, a_ids, a_pubs, a_subs, a_latest>>
dispatchVars == <<sub_handlers, registering, subscribed, dispatcher, waiters,
                  d_subs, d_count, d_last, d_removed>>
handleVars == <<entities, capabilities, sent>>
registryVars == <<registry_entities, sensors, on_offs, lights, init_calls, lookups,
                  status_published, version_published, failed_lookups, last_lookup>>
connectVars == <<c_pc, c_results, c_first>>
coreVars == <<topicVars, allocVars, dispatchVars, handleVars>>
hassVars == <<h_pc, h_error, h_log, h_queue, h_id, h_writer, h_reader, h_packets,
              h_calls, h_ids>>
colorVars == <<col_obj, col_result>>
bthomeVars == <<bt_data, bt_result>>
zhaVars == <<zha_event, zha_table, zha_out>>
propagateVars == <<ps_mapping, ps_state, ps_out>>
commandVars == <<cmd_mapping, cmd_registered, cmd_log>>
lockVars == <<mutex, lk_pc, lk_event, lk_insert>>
raceVars == <<r_start, r_retry, r_phase, r_calls, r_ids>>
bridgeVars == <<br_pc, br_error, br_log>>
sensorsVars == <<bb_table, bb_devices, bb_pc, bb_log>>
pureVars == <<colorVars, bthomeVars, zhaVars, propagateVars, commandVars, lockVars,
             raceVars, bridgeVars, sensorsVars>>
besideColor == <<bthomeVars, zhaVars, propagateVars, commandVars, lockVars, raceVars,
                 bridgeVars, sensorsVars>>
besideBthome == <<colorVars, zhaVars, propagateVars, commandVars, lockVars, raceVars,
                  bridgeVars, sensorsVars>>
besideZha == <<colorVars, bthomeVars, propagateVars, commandVars, lockVars,
               raceVars, bridgeVars, sensorsVars>>
besidePropagate == <<colorVars, bthomeVars, zhaVars, commandVars, lockVars, raceVars,
                     bridgeVars, sensorsVars>>
besideCommand == <<colorVars, bthomeVars, zhaVars, propagateVars, lockVars, raceVars,
                   bridgeVars, sensorsVars>>
besideLock == <<colorVars, bthomeVars, zhaVars, propagateVars, commandVars, raceVars,
                bridgeVars, sensorsVars>>
besideRace == <<colorVars, bthomeVars, zhaVars, propagateVars, commandVars, lockVars,
                bridgeVars, sensorsVars>>
besideBridge == <<colorVars, bthomeVars, zhaVars, propagateVars, commandVars, lockVars,
                  raceVars, sensorsVars>>
besideSensors == <<colorVars, bthomeVars, zhaVars, propagateVars, commandVars, lockVars,
                   raceVars, bridgeVars>>
extVars == <<registryVars, connectVars, hassVars, pureVars>>
vars == <<topicVars, allocVars, dispatchVars, handleVars, extVars>>

(***************************************************************************)
(* Bounds of the topic harness.                                            *)
(***************************************************************************)
MaxSegLen == 1        \* letters in an entity, capability or key of a constructed Topic
MaxRestLen == 3       \* letters (separators included) in the rest of a constructed Topic
MaxSegs == 7          \* segments in a string handed to the parser

Slash == "/"
NonSlash == {"tanuki", "entities", "$meta", "a"}
Alphabet == NonSlash \cup {Slash}

\* Option<&str>
NoneV == [some |-> FALSE]
Some(s) == [some |-> TRUE, val |-> s]

\* Result<Topic, &'static str>
Ok(t) == [ok |-> TRUE, val |-> t]
Err(e) == [ok |-> FALSE, err |-> e]

\* enum Topic
EntityMeta(entity, key) ==
    [tag |-> "EntityMeta", entity |-> entity, key |-> key]
CapabilityMeta(entity, capability, key) ==
    [tag |-> "CapabilityMeta", entity |-> entity, capability |-> capability, key |-> key]
CapabilityData(entity, capability, rest) ==
    [tag |-> "CapabilityData", entity |-> entity, capability |-> capability, rest |-> rest]

TANUKI == <<"tanuki">>
ENTITIES == <<"entities">>
META == <<"$meta">>

\* Display with the separator before an empty rest left out.
fmt_trimmed(t) ==
    LET head == TANUKI \o <<Slash>> \o ENTITIES \o <<Slash>> \o t.entity IN
    CASE t.tag = "EntityMeta" -> head \o <<Slash>> \o META \o <<Slash>> \o t.key
      [] t.tag = "CapabilityMeta" ->
            head \o <<Slash>> \o t.capability \o <<Slash>> \o META \o <<Slash>> \o t.key
      [] t.tag = "CapabilityData" ->
            IF t.rest = <<>> THEN head \o <<Slash>> \o t.capability
            ELSE head \o <<Slash>> \o t.capability \o <<Slash>> \o t.rest

\* impl Display for Topic
fmt(t) ==
    CASE t.tag = "EntityMeta" ->
            TANUKI \o <<Slash>> \o ENTITIES \o <<Slash>> \o t.entity
                \o <<Slash>> \o META \o <<Slash>> \o t.key
      [] t.tag = "CapabilityMeta" ->
            TANUKI \o <<Slash>> \o ENTITIES \o <<Slash>> \o t.entity
                \o <<Slash>> \o t.capability \o <<Slash>> \o META \o <<Slash>> \o t.key
      [] t.tag = "CapabilityData" ->
            TANUKI \o <<Slash>> \o ENTITIES \o <<Slash>> \o t.entity
                \o <<Slash>> \o t.capability \o <<Slash>> \o t.rest

\* Position of the first separator of s, or 0.
FirstSlash(s) ==
    IF \E i \in 1..Len(s) : s[i] = Slash
    THEN CHOOSE i \in 1..Len(s) : s[i] = Slash /\ \A j \in 1..(i - 1) : s[j] # Slash
    ELSE 0

\* core::str::Split::next on the unconsumed remainder `rem` (NoneV once the
\* iterator is finished): the item yielded and the new remainder.
SplitNext(rem) ==
    IF ~rem.some THEN [item |-> NoneV, rem |-> NoneV]
    ELSE LET i == FirstSlash(rem.val) IN
         IF i = 0 THEN [item |-> Some(rem.val), rem |-> NoneV]
         ELSE [item |-> Some(SubSeq(rem.val, 1, i - 1)),
               rem |-> Some(SubSeq(rem.val, i + 1, Len(rem.val)))]

\* The capability arm with parts.remainder() dropped: rest is one segment.
from_str_capability_first_segment(entity, capability, parts) ==
    LET p5 == SplitNext(parts) IN
    IF p5.item = Some(META) THEN
        LET p6 == SplitNext(p5.rem) IN
        IF p6.item.some /\ ~SplitNext(p6.rem).item.some
        THEN Ok(CapabilityMeta(entity, capability, p6.item.val))
        ELSE IF p6.item.some THEN Err("tanuki/entities/{id}/{cap}/$meta/{key}/...")
        ELSE Err("tanuki/entities/{id}/{cap}/$meta")
    ELSE IF p5.item.some THEN Ok(CapabilityData(entity, capability, p5.item.val))
    ELSE Err("tanuki/entities/{id}/{cap}")

\* The arm under Some(capability): lines 82-101.
from_str_capability(entity, capability, parts) ==
    LET p5 == SplitNext(parts) IN
    IF p5.item = Some(META) THEN
        LET p6 == SplitNext(p5.rem) IN
        IF p6.item.some /\ ~SplitNext(p6.rem).item.some
        THEN Ok(CapabilityMeta(entity, capability, p6.item.val))
        ELSE IF p6.item.some THEN Err("tanuki/entities/{id}/{cap}/$meta/{key}/...")
        ELSE Err("tanuki/entities/{id}/{cap}/$meta")
    ELSE IF p5.item.some THEN
        Ok(CapabilityData(entity, capability,
            IF p5.rem.some THEN p5.item.val \o <<Slash>> \o p5.rem.val
            ELSE p5.item.val))
    ELSE Err("tanuki/entities/{id}/{cap}")

\* The entity arm without the `if parts.next().is_none()` guard on {key}.
from_str_entity_unguarded(entity, parts) ==
    LET p4 == SplitNext(parts) IN
    IF p4.item = Some(META) THEN
        LET p5 == SplitNext(p4.rem) IN
        IF p5.item.some THEN Ok(EntityMeta(entity, p5.item.val))
        ELSE Err("tanuki/entities/{id}/$meta")
    ELSE IF p4.item.some THEN from_str_capability(entity, p4.item.val, p4.rem)
    ELSE Err("tanuki/entities/{id}")

\* The arm under Some(entity): lines 73-103.
from_str_entity(entity, parts) ==
    LET p4 == SplitNext(parts) IN
    IF p4.item = Some(META) THEN
        LET p5 == SplitNext(p4.rem) IN
        IF p5.item.some /\ ~SplitNext(p5.rem).item.some
        THEN Ok(EntityMeta(entity, p5.item.val))
        ELSE IF p5.item.some THEN Err("tanuki/entities/{id}/$meta/{key}/...")
        ELSE Err("tanuki/entities/{id}/$meta")
    ELSE IF p4.item.some THEN from_str_capability(entity, p4.item.val, p4.rem)
    ELSE Err("tanuki/entities/{id}")

\* impl FromStr for Topic
from_str(s) ==
    LET p1 == SplitNext(Some(s)) IN
    IF p1.item # Some(TANUKI) THEN Err("does not start with tanuki/")
    ELSE LET p2 == SplitNext(p1.rem) IN
         IF p2.item = Some(ENTITIES) THEN
             LET p3 == SplitNext(p2.rem) IN
             IF p3.item.some THEN from_str_entity(p3.item.val, p3.rem)
             ELSE Err("tanuki/entities")
         ELSE IF p2.item.some THEN Err("tanuki/...")
         ELSE Err("tanuki")

(***************************************************************************)
(* Inputs of the topic harness.                                            *)
(***************************************************************************)
RECURSIVE SeqsUpTo(_, _)
SeqsUpTo(S, n) ==
    IF n = 0 THEN {<<>>}
    ELSE LET shorter == SeqsUpTo(S, n - 1) IN
         shorter \cup {Append(s, c) : s \in {u \in shorter : Len(u) = n - 1}, c \in S}

\* entity, capability, key: strings without a separator
Segments == SeqsUpTo(NonSlash, MaxSegLen)
\* rest: any string
Rests == SeqsUpTo(Alphabet, MaxRestLen)

\* The segments the parsed strings are built from: the empty segment and the
\* one-letter segments.
ParseSegments == {<<>>} \cup {<<c>> : c \in NonSlash}

RECURSIVE Join(_)
Join(segs) ==
    IF Len(segs) = 1 THEN segs[1]
    ELSE segs[1] \o <<Slash>> \o Join(Tail(segs))

\* The segments of a string, as str::split('/') yields them.
RECURSIVE Split(_)
Split(s) ==
    LET i == FirstSlash(s) IN
    IF i = 0 THEN <<s>>
    ELSE <<SubSeq(s, 1, i - 1)>> \o Split(SubSeq(s, i + 1, Len(s)))

NoTopic == EntityMeta(<<>>, <<>>)

\* No dispatch yet.
NoDispatch ==
    [sub_id |-> 0, payload |-> "", registered |-> FALSE, invoked |-> FALSE,
     retain |-> FALSE, after_removal |-> FALSE, handler |-> [kind |-> "none"]]

\* The entity ids a registry is asked for.
EntityIds == {<<"lamp">>, <<"vindstyrka">>}

\* The capability maps of a Registry.
CapMaps == {"sensors", "on_offs", "lights"}

\* Registry::new
RegistryNew ==
    /\ registry_entities = {} /\ sensors = {} /\ on_offs = {} /\ lights = {}
    /\ init_calls = [id \in EntityIds |-> 0]
    /\ lookups = 0
    /\ status_published = [id \in EntityIds |-> 0]
    /\ version_published = [pair \in EntityIds \X CapMaps |-> 0]
    /\ failed_lookups = 0
    /\ last_lookup = [cached |-> FALSE, sent |-> 0, ok |-> TRUE]

\* No connect call has been made.
ConnectIdle ==
    /\ c_pc = "idle" /\ c_results = <<>> /\ c_first = "none"

\* The u32 n = hi * 2^16 + lo as the pair <<hi, lo>> of its 16-bit halves.
U32(hi, lo) == <<hi, lo>>

\* HomeAssistant::connect has not been called; no task exists.
HassIdle ==
    /\ h_pc = "start" /\ h_error = [kind |-> "none"] /\ h_log = <<>>
    /\ h_queue = <<>> /\ h_writer = "none" /\ h_reader = "none" /\ h_packets = <<>>
    /\ h_calls = 0

\* The decoder has not been called.
NotDecoded == [called |-> FALSE, ok |-> FALSE, variant |-> "none"]

\* No Color has been decoded.
ColorIdle == col_obj = <<>> /\ col_result = NotDecoded

\* The components beside the connection, as constructed, the decoder's input
\* left open.
ExtIdleButColor ==
    RegistryNew /\ ConnectIdle /\ HassIdle /\ h_id = U32(0, 1) /\ h_ids = <<>>

\* Object::decode has not been called.
BthomeIdle == bt_data = <<>> /\ bt_result = [called |-> FALSE]

\* No zha_event has been handled.
ZhaNotDone == [done |-> FALSE, ok |-> TRUE, published |-> <<>>]
ZhaIdle == zha_event = <<>> /\ zha_table = <<>> /\ zha_out = ZhaNotDone

\* propagate_state has not been called.
PsNotDone == [done |-> FALSE, ok |-> TRUE, steps |-> 0, published |-> <<>>]
PropagateIdle == ps_mapping = <<>> /\ ps_state = <<>> /\ ps_out = PsNotDone

\* No to_hass listener has been installed.
CommandIdle == cmd_mapping = <<>> /\ cmd_registered = FALSE /\ cmd_log = <<>>

\* handle() awaits recv, no subscribe_with_handler is at the lock, the Mutex
\* is free (Mutex::new).
LockIdle ==
    /\ mutex = "free" /\ lk_pc = "recv"
    /\ lk_event = [sub_id |-> 0] /\ lk_insert = [sub_id |-> 0]

\* No task is inside next_payload_id; the counter is as constructed.
RaceIdle ==
    /\ r_start = 1 /\ r_retry = {} /\ r_phase = "subscription_id"
    /\ r_calls = 0 /\ r_ids = <<>>

\* bridge() of tanuki-hass has not got past its connects.
BridgeIdle == br_pc = "connecting" /\ br_error = "none" /\ br_log = <<>>

\* bridge() of tanuki-bthome has an empty table and has seen no update.
SensorsIdle ==
    /\ bb_table = <<>> /\ bb_devices = <<>> /\ bb_pc = "running" /\ bb_log = <<>>

\* The functions checked on their own have not been called, those named in
\* S left open.
PureIdleExcept(S) ==
    /\ "color" \in S \/ ColorIdle
    /\ "bthome" \in S \/ BthomeIdle
    /\ "zha" \in S \/ ZhaIdle
    /\ "propagate" \in S \/ PropagateIdle
    /\ "command" \in S \/ CommandIdle
    /\ "lock" \in S \/ LockIdle
    /\ "race" \in S \/ RaceIdle
    /\ "bridge" \in S \/ BridgeIdle
    /\ "sensors" \in S \/ SensorsIdle

\* The components beside the connection, as constructed.
ExtIdle == ExtIdleButColor /\ PureIdleExcept({})

\* The same, the writer's counter left open.
ExtIdleButId ==
    RegistryNew /\ ConnectIdle /\ HassIdle /\ h_ids = <<>> /\ PureIdleExcept({})

\* The connection as TanukiConnection::connect returns it, the counter aside.
ConnectionAttached ==
    /\ sub_handlers = <<>>
    /\ registering = {}
    /\ subscribed = <<>>
    /\ dispatcher = "running"
    /\ waiters = <<>>
    /\ d_subs = 0 /\ d_count = 0 /\ d_last = NoDispatch /\ d_removed = {}
    /\ a_prev = 0 /\ a_ids = <<>> /\ a_pubs = 0 /\ a_subs = <<>> /\ a_latest = 0
    /\ entities = {} /\ capabilities = {} /\ sent = <<>>

\* The connection as TanukiConnection::connect returns it.
ConnectionInit ==
    /\ next_payload_id = 1
    /\ ConnectionAttached

\* The topic harness at rest.
TopicIdle ==
    /\ t_case = "idle" /\ t_value = NoTopic /\ t_string = <<>>
    /\ t_text = <<>> /\ t_result = Err("")

\* The harness starts with one input drawn: a constructed Topic value (entity,
\* capability and key without a separator, capability not "$meta", rest any
\* string) or a string (the join of one or more segments).
TopicInit ==
    /\ t_text = <<>>
    /\ t_result = Err("")
    /\ ConnectionInit
    /\ ExtIdle
    /\ \/ /\ t_case = "value"
          /\ \/ \E e \in Segments, k \in Segments :
                    t_value = EntityMeta(e, k)
             \/ \E e \in Segments, c \in Segments \ {META}, k \in Segments :
                    t_value = CapabilityMeta(e, c, k)
             \/ \E e \in Segments, c \in Segments \ {META}, r \in Rests :
                    t_value = CapabilityData(e, c, r)
          /\ t_string = <<>>
       \/ /\ t_case = "string"
          /\ t_value = NoTopic
          /\ \E n \in 1..MaxSegs : \E segs \in [1..n -> ParseSegments] :
                t_string = Join(segs)

\* t_value.to_string().parse::<Topic>()
FormatThenParse ==
    /\ t_case = "value"
    /\ t_text' = fmt(t_value)
    /\ t_result' = from_str(fmt(t_value))
    /\ t_case' = "value_done"
    /\ UNCHANGED <<t_value, t_string>>
    /\ UNCHANGED <<allocVars, dispatchVars, handleVars, extVars>>

\* t_string.parse::<Topic>().map(|t| t.to_string())
ParseThenFormat ==
    /\ t_case = "string"
    /\ LET r == from_str(t_string) IN
        /\ t_result' = r
        /\ t_text' = IF r.ok THEN fmt(r.val) ELSE <<>>
    /\ t_case' = "string_done"
    /\ UNCHANGED <<t_value, t_string>>
    /\ UNCHANGED <<allocVars, dispatchVars, handleVars, extVars>>

TopicNext == FormatThenParse \/ ParseThenFormat

SpecTopic == TopicInit /\ [][TopicNext]_vars

(***************************************************************************)
(* Topic schema: claims C1-C3.                                             *)
(***************************************************************************)
FirstSegment(s) == Split(s)[1]
HasSlash(s) == FirstSlash(s) # 0

\* C1 as stated: for every constructed Topic x (entity, capability, key without
\* "/", capability not "$meta", rest any string), parsing the formatted x
\* succeeds and yields x.
C1_RoundTripAnyRest ==
    t_case = "value_done" => t_result = Ok(t_value)

\* C1 amended: parsing the formatted x yields x for every constructed Topic x
\* whose rest (for CapabilityData) does not have "$meta" as its first segment.
C1_RoundTripValue ==
    (/\ t_case = "value_done"
     /\ (t_value.tag = "CapabilityData" => FirstSegment(t_value.rest) # META))
        => t_result = Ok(t_value)

\* C1 witness: a CapabilityData whose rest contains "/" has made the round trip.
C1_Witness ==
    /\ t_case = "value_done"
    /\ t_value.tag = "CapabilityData"
    /\ HasSlash(t_value.rest)
    /\ t_result = Ok(t_value)

\* C2: for every string the parser accepts, formatting the parsed Topic yields
\* that string again.
C2_RoundTripString ==
    (t_case = "string_done" /\ t_result.ok) => t_text = t_string

\* C2 witness: an accepted string with a trailing "/" (an empty last segment).
C2_Witness ==
    /\ t_case = "string_done"
    /\ t_result.ok
    /\ t_string[Len(t_string)] = Slash
    /\ t_text = t_string

\* C3: with segs the segments of the parsed string, tanuki/entities/e/$meta/k
\* followed by any segment is the error naming the entity-meta depth;
\* tanuki/entities/e/c/$meta/k followed by any segment is the error naming the
\* capability-meta depth; and tanuki/entities/e/c/s1/../sn with s1 not "$meta"
\* is CapabilityData with rest s1/../sn (c standing for a capability segment,
\* so not "$meta").
C3_TrailingSegments ==
    t_case = "string_done" =>
        LET segs == Split(t_string)
            n == Len(segs)
            prefixed == n >= 3 /\ segs[1] = TANUKI /\ segs[2] = ENTITIES
        IN
        /\ (prefixed /\ n >= 6 /\ segs[4] = META)
                => t_result = Err("tanuki/entities/{id}/$meta/{key}/...")
        /\ (prefixed /\ n >= 7 /\ segs[4] # META /\ segs[5] = META)
                => t_result = Err("tanuki/entities/{id}/{cap}/$meta/{key}/...")
        /\ (prefixed /\ n >= 5 /\ segs[4] # META /\ segs[5] # META)
                => t_result = Ok(CapabilityData(segs[3], segs[4], Join(SubSeq(segs, 5, n))))

\* C3 witness: a capability-meta topic with a trailing segment was rejected.
C3_Witness ==
    /\ t_case = "string_done"
    /\ Len(Split(t_string)) = 7
    /\ t_result = Err("tanuki/entities/{id}/{cap}/$meta/{key}/...")

(***************************************************************************)
(* The identifier allocator of a connection (tanuki/src/lib.rs).           *)
(***************************************************************************)
U16 == 65536          \* AtomicU16: fetch_add wraps modulo 2^16
MaxSubscriptionId == 268435455   \* SubscriptionIdentifier::new accepts 1 ..= 2^28 - 1

MaxPublishes == 1     \* publish calls in a run of the allocator
MaxTracked == 1       \* subscribe calls whose returned id the history keeps

\* One fetch_add(1) without the `if id != 0` test.
next_payload_id_no_skip(counter) ==
    [id |-> counter, next |-> (counter + 1) % U16]

\* TanukiConnection::next_payload_id on a counter value: the id returned and
\* the counter value left behind.
RECURSIVE NextPayloadId(_)
NextPayloadId(counter) ==
    LET id == counter
        after == (counter + 1) % U16
    IN  IF id # 0 THEN [id |-> id, next |-> after]
        ELSE NextPayloadId(after)

\* TanukiConnection::next_subscription_id: SubscriptionIdentifier::new(..).unwrap()
\* panics outside 1 ..= 2^28 - 1.
NextSubscriptionId(counter) ==
    LET r == NextPayloadId(counter) IN
    [id |-> r.id, next |-> r.next, panics |-> ~(r.id \in 1..MaxSubscriptionId)]

Last(s) == s[Len(s)]

AllocInit ==
    /\ ConnectionInit
    /\ ExtIdle
    /\ TopicIdle

\* publish, as far as the allocator goes: one packet id.
AllocPublish ==
    /\ a_pubs < MaxPublishes
    /\ LET p == NextPayloadId(next_payload_id) IN
        /\ next_payload_id' = p.next
        /\ a_ids' = <<p.id>>
    /\ a_prev' = IF a_ids = <<>> THEN 0 ELSE Last(a_ids)
    /\ a_pubs' = a_pubs + 1
    /\ UNCHANGED <<a_subs, a_latest>>
    /\ UNCHANGED <<topicVars, dispatchVars, handleVars, extVars>>

\* raw_subscribe, as far as the allocator goes: the subscription id, then the
\* packet id of the SUBSCRIBE.
AllocSubscribe ==
    /\ LET s == NextSubscriptionId(next_payload_id)
           p == NextPayloadId(s.next)
       IN
        /\ ~s.panics
        /\ next_payload_id' = p.next
        /\ a_ids' = <<s.id, p.id>>
        /\ IF Len(a_subs) < MaxTracked
           THEN a_subs' = Append(a_subs, s.id) /\ a_latest' = a_latest
           ELSE a_subs' = a_subs /\ a_latest' = s.id
    /\ a_prev' = IF a_ids = <<>> THEN 0 ELSE Last(a_ids)
    /\ UNCHANGED a_pubs
    /\ UNCHANGED <<topicVars, dispatchVars, handleVars, extVars>>

AllocNext == AllocPublish \/ AllocSubscribe

SpecAlloc == AllocInit /\ [][AllocNext]_vars

(***************************************************************************)
(* The allocator shared by two tasks, one fetch_add at a time: a task that *)
(* publishes and a task that subscribes on one connection.                 *)
(***************************************************************************)
MaxAllocs == 4        \* next_payload_id calls in a run of the race harness
NearWrap == 3         \* the run starts at most this many fetch_adds before or after the wrap

\* The counter values a run of the race harness starts from: the initial 1,
\* and the values around the wrap that a long-lived connection reaches.
RaceStarts == {1} \cup {(U16 + d) % U16 : d \in (0 - NearWrap)..NearWrap}

\* fetch_add(1) with its store lost: the counter keeps its value.
fetch_add_lost(counter) ==
    [id |-> counter, next |-> counter]

\* AtomicU16::fetch_add(1, Relaxed): one atomic read-modify-write; returns
\* the previous value, wrapping.
fetch_add(counter) ==
    [id |-> counter, next |-> (counter + 1) % U16]

\* One turn of the loop of next_payload_id run by task t allocating `kind`.
alloc_step(t, kind) ==
    /\ t \in r_retry \/ r_calls < MaxAllocs
    /\ r_calls' = IF t \in r_retry THEN r_calls ELSE r_calls + 1
    /\ LET f == fetch_add(next_payload_id) IN
        /\ next_payload_id' = f.next
        /\ IF f.id # 0
           THEN /\ r_ids' = Append(r_ids, [task |-> t, kind |-> kind, id |-> f.id])
                /\ r_retry' = r_retry \ {t}
           ELSE /\ r_ids' = r_ids
                /\ r_retry' = r_retry \cup {t}
    /\ UNCHANGED r_start
    /\ UNCHANGED <<topicVars, allocHist, dispatchVars, handleVars, registryVars,
                   connectVars, hassVars, besideRace>>

\* publish: `.packet_id(self.next_payload_id())`.
RacePublish ==
    /\ alloc_step("publish", "packet_id")
    /\ UNCHANGED r_phase

\* raw_subscribe: `self.next_subscription_id()`, then
\* `.packet_id(self.next_payload_id())`.
RaceSubscribe ==
    /\ alloc_step("subscribe", r_phase)
    /\ r_phase' = IF "subscribe" \in r_retry'
                  THEN r_phase
                  ELSE IF r_phase = "subscription_id" THEN "packet_id" ELSE "subscription_id"

RaceInit ==
    /\ ConnectionAttached
    /\ TopicIdle
    /\ ExtIdleButColor
    /\ PureIdleExcept({"race"})
    /\ next_payload_id \in RaceStarts
    /\ r_start = next_payload_id
    /\ r_retry = {} /\ r_phase = "subscription_id" /\ r_calls = 0 /\ r_ids = <<>>

RaceNext == RacePublish \/ RaceSubscribe

SpecRace == RaceInit /\ [][RaceNext]_vars

\* The ids n calls of next_payload_id return when made one after another from
\* the counter value `counter`.
RECURSIVE Sequential(_, _)
Sequential(counter, n) ==
    IF n = 0 THEN <<>>
    ELSE LET p == NextPayloadId(counter) IN <<p.id>> \o Sequential(p.next, n - 1)

\* C27: with the publish task and the subscribe task interleaved at every
\* fetch_add, no two ids returned in a run (far fewer than 65535 allocations)
\* are equal, and the ids returned are those the same number of calls made one
\* after another return: none is lost, none is handed out twice.
C27_ConcurrentIdsDistinct ==
    /\ \A i, j \in 1..Len(r_ids) : i # j => r_ids[i].id # r_ids[j].id
    /\ [i \in 1..Len(r_ids) |-> r_ids[i].id] = Sequential(r_start, Len(r_ids))
    /\ Len(r_ids) + Cardinality(r_retry) = r_calls

\* The publish task read 0 at the wrap and is about to retry while the
\* subscribe task, running in between, was handed 1.
C27_Witness ==
    /\ r_retry = {"publish"}
    /\ Len(r_ids) >= 2
    /\ Last(r_ids) = [task |-> "subscribe", kind |-> "subscription_id", id |-> 1]
    /\ r_ids[Len(r_ids) - 1].task = "publish"
    /\ r_ids[Len(r_ids) - 1].id = U16 - 1

\* The id after `id` in the order 1, 2, .., 65535, 1, ..
SuccId(id) == IF id = U16 - 1 THEN 1 ELSE id + 1

\* C4: no id returned is 0; the first id returned is 1; each id returned is the
\* one after the id returned before it, 1 following 65535; for the packet id of
\* a publish and for the subscription id and the packet id of a subscribe.
C4_AllocatorSkipsZero ==
    /\ \A i \in 1..Len(a_ids) : a_ids[i] \in 1..(U16 - 1)
    /\ a_ids # <<>> =>
        /\ a_ids[1] = (IF a_prev = 0 THEN 1 ELSE SuccId(a_prev))
        /\ \A i \in 2..Len(a_ids) : a_ids[i] = SuccId(a_ids[i - 1])

\* C4 witness: the counter has wrapped inside a subscribe: the subscription id
\* returned is 65535 and the packet id after it is 1.
C4_Witness ==
    a_ids = <<U16 - 1, 1>>

\* The subscription ids the history holds, in the order they were returned.
ReturnedSubIds == IF a_latest = 0 THEN a_subs ELSE Append(a_subs, a_latest)

\* C5: no two subscription ids returned on a connection are equal.
C5_UniqueSubscriptionIds ==
    \A i, j \in 1..Len(ReturnedSubIds) :
        i # j => ReturnedSubIds[i] # ReturnedSubIds[j]

(***************************************************************************)
(* Subscriptions and the dispatcher (tanuki/src/lib.rs,                    *)
(* tanuki/src/capabilities/mod.rs, tanuki/src/capabilities/buttons.rs).    *)
(***************************************************************************)
MaxSubscribes == 2    \* subscribe_with_handler calls in a run
MaxInbound == 3       \* inbound packets in a run

LAMP == <<"lamp">>
ON_OFF == <<"tanuki.on_off">>
BUTTONS == <<"tanuki.buttons">>

\* Inbound payloads: the JSON value true, the JSON string "pressed", and bytes
\* that are not JSON.
Payloads == {"true", "\"pressed\"", "{", ""}

\* serde_json::from_slice::<serde_json::Value> succeeds
IsJson(payload) == payload \in {"true", "\"pressed\""}

\* serde_json::from_value::<T> succeeds: On(bool) takes a JSON boolean,
\* ButtonAction the strings of its variants.
Decodes(ty, payload) ==
    \/ ty = "On" /\ payload = "true"
    \/ ty = "ButtonAction" /\ payload = "\"pressed\""

\* The closure TanukiCapability::listen boxes: `inner` is the listener it
\* captures: "listener" (an FnMut given by the caller), or the Option of
\* listen_oneshot, "some" until taken and then "none".
ListenHandler(ty, oneshot, inner, is_get) ==
    [kind |-> "listen", ty |-> ty, oneshot |-> oneshot, inner |-> inner, is_get |-> is_get]

\* The closure Buttons::listen boxes.
ButtonsHandler == [kind |-> "buttons"]

\* handler(event): whether the captured listener ran, the bool the closure
\* returns, and the closure afterwards.
call_handler(h, ev) ==
    IF h.kind = "listen" THEN
        \* capabilities/mod.rs, listen (and the wrapper of listen_oneshot)
        IF Decodes(h.ty, ev.payload)
        THEN [invoked |-> h.inner # "none",
              retain |-> ~h.oneshot,
              next |-> [h EXCEPT !.inner = IF @ = "some" THEN "none" ELSE @]]
        ELSE [invoked |-> FALSE, retain |-> FALSE, next |-> h]
    ELSE
        \* capabilities/buttons.rs, Buttons::listen
        [invoked |-> ev.topic.tag = "CapabilityData" /\ Decodes("ButtonAction", ev.payload),
         retain |-> TRUE,
         next |-> h]

Without(f, k) == [i \in DOMAIN f \ {k} |-> f[i]]
With(f, k, v) == [i \in DOMAIN f \cup {k} |-> IF i = k THEN v ELSE f[i]]

\* handle() with `handlers.remove` left out.
handlers_after_never_removed(handlers, id, retain, next) ==
    With(handlers, id, next)

\* The handler map after handler(event) returned `retain` (lib.rs 155-160).
handlers_after(handlers, id, retain, next) ==
    IF retain THEN With(handlers, id, next) ELSE Without(handlers, id)

\* The three ways a capability handle subscribes with a handler: listen on the
\* property On (long-lived), get of the property On, Buttons::listen.
SubscribeCalls ==
    {[topic |-> CapabilityData(LAMP, ON_OFF, <<"on">>),
      handler |-> ListenHandler("On", FALSE, "listener", FALSE)],
     [topic |-> CapabilityData(LAMP, ON_OFF, <<"on">>),
      handler |-> ListenHandler("On", TRUE, "some", TRUE)],
     [topic |-> CapabilityData(LAMP, BUTTONS, <<"+">>),
      handler |-> ButtonsHandler]}

DispatchInit ==
    /\ ConnectionInit
    /\ ExtIdle
    /\ TopicIdle

\* subscribe_with_handler up to `self.subscribe(topic).await?` returning Ok:
\* both ids are allocated and the SUBSCRIBE is sent.
subscribe_sent ==
    /\ d_subs < MaxSubscribes
    /\ \E call \in SubscribeCalls :
        LET s == NextSubscriptionId(next_payload_id)
            p == NextPayloadId(s.next)
        IN
        /\ ~s.panics
        /\ next_payload_id' = p.next
        /\ subscribed' = With(subscribed, s.id, call.topic)
        /\ registering' = registering \cup {[sub_id |-> s.id, handler |-> call.handler]}
    /\ d_subs' = d_subs + 1
    /\ UNCHANGED <<sub_handlers, dispatcher, waiters, d_count, d_last, d_removed>>
    /\ UNCHANGED <<topicVars, allocHist, handleVars, extVars>>

\* subscribe_with_handler when raw_subscribe returns Err (SubEntry::new, build,
\* register_packet_id or send): the ids are spent, no handler is inserted; a
\* get returns the error.
subscribe_failed ==
    /\ d_subs < MaxSubscribes
    /\ LET s == NextSubscriptionId(next_payload_id)
           p == NextPayloadId(s.next)
       IN
        /\ ~s.panics
        /\ next_payload_id' = p.next
    /\ d_subs' = d_subs + 1
    /\ UNCHANGED <<sub_handlers, registering, subscribed, dispatcher, waiters,
                   d_count, d_last, d_removed>>
    /\ UNCHANGED <<topicVars, allocHist, handleVars, extVars>>

\* subscribe_with_handler from `self.sub_handlers.lock().await` on: the handler
\* is inserted; a get goes on to await rx.
handler_inserted ==
    /\ \E r \in registering :
        /\ registering' = registering \ {r}
        /\ sub_handlers' = With(sub_handlers, r.sub_id, r.handler)
        /\ waiters' = IF r.handler.kind = "listen" /\ r.handler.is_get
                      THEN With(waiters, r.sub_id, "waiting")
                      ELSE waiters
    /\ UNCHANGED <<next_payload_id, subscribed, dispatcher, d_subs, d_count, d_last, d_removed>>
    /\ UNCHANGED <<topicVars, allocHist, handleVars, extVars>>

\* The topic names the broker delivers for a filter: the filter itself, "+"
\* standing for a button name.
Matching(filter) ==
    fmt(IF filter.rest = <<"+">> THEN [filter EXCEPT !.rest = <<"on">>] ELSE filter)

\* An inbound topic name that is no Topic: tanuki/entities/lamp/$meta (a
\* filter such as tanuki/entities/+/+/# matches it).
BadTopicName == Join(<<TANUKI, ENTITIES, LAMP, META>>)

\* The waiter of a get after its handler ran or was dropped: tx.send fulfils
\* it; dropping the closure with tx unused closes the channel, and
\* `rx.await.unwrap()` panics.
waiter_after(w, h, res) ==
    IF res.invoked THEN "fulfilled"
    ELSE IF ~res.retain /\ h.inner = "some" THEN "panicked"
    ELSE w

\* One turn of the loop of handle(): recv, then the dispatch of the event.
handle ==
    /\ dispatcher = "running"
    /\ d_count < MaxInbound
    /\ d_count' = d_count + 1
    /\ \/ \* recv: a packet that is no PUBLISH is skipped
          UNCHANGED <<sub_handlers, dispatcher, waiters, d_last, d_removed>>
       \/ \* recv: the endpoint fails
          /\ dispatcher' = "MqttConnection"
          /\ UNCHANGED <<sub_handlers, waiters, d_last, d_removed>>
       \/ \E id \in DOMAIN subscribed \cup {0}, payload \in Payloads, bad \in BOOLEAN :
            LET topic_name == IF bad THEN BadTopicName
                              ELSE IF id = 0 THEN fmt(CapabilityData(LAMP, ON_OFF, <<"on">>))
                              ELSE Matching(subscribed[id])
                topic == from_str(topic_name)
            IN
            IF ~topic.ok THEN
                /\ dispatcher' = "BadTopic"
                /\ UNCHANGED <<sub_handlers, waiters, d_last, d_removed>>
            ELSE IF ~IsJson(payload) THEN
                /\ dispatcher' = "SerdeJson"
                /\ UNCHANGED <<sub_handlers, waiters, d_last, d_removed>>
            ELSE IF id # 0 /\ id \in DOMAIN sub_handlers THEN
                LET h == sub_handlers[id]
                    ev == [sub_id |-> id, topic |-> topic.val, payload |-> payload]
                    res == call_handler(h, ev)
                IN
                /\ sub_handlers' = handlers_after(sub_handlers, id, res.retain, res.next)
                /\ waiters' = IF id \in DOMAIN waiters
                              THEN [waiters EXCEPT ![id] = waiter_after(@, h, res)]
                              ELSE waiters
                /\ d_removed' = IF res.retain THEN d_removed ELSE d_removed \cup {id}
                /\ d_last' = [sub_id |-> id, payload |-> payload, registered |-> TRUE,
                              invoked |-> res.invoked, retain |-> res.retain,
                              after_removal |-> id \in d_removed, handler |-> h]
                /\ UNCHANGED dispatcher
            ELSE
                /\ d_last' = [sub_id |-> id, payload |-> payload, registered |-> FALSE,
                              invoked |-> FALSE, retain |-> FALSE,
                              after_removal |-> id \in d_removed,
                              handler |-> [kind |-> "none"]]
                /\ UNCHANGED <<sub_handlers, dispatcher, waiters, d_removed>>
    /\ UNCHANGED <<next_payload_id, registering, subscribed, d_subs>>
    /\ UNCHANGED <<topicVars, allocHist, handleVars, extVars>>

DispatchNext == subscribe_sent \/ subscribe_failed \/ handler_inserted \/ handle

SpecDispatch == DispatchInit /\ [][DispatchNext]_vars

(***************************************************************************)
(* The Mutex around the handler map, handle() and subscribe_with_handler   *)
(* taken one await or call at a time (tanuki/src/lib.rs).                  *)
(***************************************************************************)
LockInit ==
    /\ ConnectionInit
    /\ ExtIdle
    /\ TopicIdle

\* subscribe_with_handler: `self.sub_handlers.lock().await` returns the guard.
lock_for_insert ==
    /\ mutex = "free"
    /\ \E r \in registering :
        /\ registering' = registering \ {r}
        /\ lk_insert' = r
    /\ mutex' = "subscribe_with_handler"
    /\ UNCHANGED <<lk_pc, lk_event>>
    /\ UNCHANGED <<next_payload_id, sub_handlers, subscribed, dispatcher, waiters,
                   d_subs, d_count, d_last, d_removed>>
    /\ UNCHANGED <<topicVars, allocHist, handleVars, registryVars, connectVars,
                   hassVars, besideLock>>

\* subscribe_with_handler: `handlers.insert(sub_id.val(), handler)`, then the
\* guard is dropped on return.
insert_handler ==
    /\ mutex = "subscribe_with_handler"
    /\ sub_handlers' = With(sub_handlers, lk_insert.sub_id, lk_insert.handler)
    /\ waiters' = IF lk_insert.handler.kind = "listen" /\ lk_insert.handler.is_get
                  THEN With(waiters, lk_insert.sub_id, "waiting")
                  ELSE waiters
    /\ lk_insert' = [sub_id |-> 0]
    /\ mutex' = "free"
    /\ UNCHANGED <<lk_pc, lk_event>>
    /\ UNCHANGED <<next_payload_id, registering, subscribed, dispatcher,
                   d_subs, d_count, d_last, d_removed>>
    /\ UNCHANGED <<topicVars, allocHist, handleVars, registryVars, connectVars,
                   hassVars, besideLock>>

\* handle(): `self.recv().await?`.  An event without a subscription id is
\* dropped and the loop awaits the next one.
recv_event ==
    /\ dispatcher = "running"
    /\ lk_pc = "recv"
    /\ d_count < MaxInbound
    /\ d_count' = d_count + 1
    /\ \/ \* a packet that is no PUBLISH is skipped
          UNCHANGED <<dispatcher, lk_pc, lk_event>>
       \/ \* the endpoint fails
          /\ dispatcher' = "MqttConnection"
          /\ UNCHANGED <<lk_pc, lk_event>>
       \/ \E id \in DOMAIN subscribed \cup {0}, payload \in Payloads, bad \in BOOLEAN :
            LET topic_name == IF bad THEN BadTopicName
                              ELSE IF id = 0 THEN fmt(CapabilityData(LAMP, ON_OFF, <<"on">>))
                              ELSE Matching(subscribed[id])
                topic == from_str(topic_name)
            IN
            IF ~topic.ok THEN
                /\ dispatcher' = "BadTopic"
                /\ UNCHANGED <<lk_pc, lk_event>>
            ELSE IF ~IsJson(payload) THEN
                /\ dispatcher' = "SerdeJson"
                /\ UNCHANGED <<lk_pc, lk_event>>
            ELSE IF id # 0 THEN
                /\ lk_event' = [sub_id |-> id, topic |-> topic.val, payload |-> payload]
                /\ lk_pc' = "lock"
                /\ UNCHANGED dispatcher
            ELSE
                UNCHANGED <<dispatcher, lk_pc, lk_event>>
    /\ UNCHANGED <<mutex, lk_insert>>
    /\ UNCHANGED <<next_payload_id, sub_handlers, registering, subscribed, waiters,
                   d_subs, d_last, d_removed>>
    /\ UNCHANGED <<topicVars, allocHist, handleVars, registryVars, connectVars,
                   hassVars, besideLock>>

\* handle(): `let mut handlers = self.sub_handlers.lock().await` returns the
\* guard; `handlers.get_mut(&sub_id.val())` finds the handler, which is then
\* called, or finds none.
lock_for_dispatch ==
    /\ lk_pc = "lock"
    /\ mutex = "free"
    /\ mutex' = "handle"
    /\ IF lk_event.sub_id \in DOMAIN sub_handlers
       THEN /\ lk_pc' = "call"
            /\ UNCHANGED d_last
       ELSE /\ lk_pc' = "unlock"
            /\ d_last' = [sub_id |-> lk_event.sub_id, payload |-> lk_event.payload,
                          registered |-> FALSE, invoked |-> FALSE, retain |-> FALSE,
                          after_removal |-> lk_event.sub_id \in d_removed,
                          handler |-> [kind |-> "none"]]
    /\ UNCHANGED <<lk_event, lk_insert>>
    /\ UNCHANGED <<next_payload_id, sub_handlers, registering, subscribed, dispatcher,
                   waiters, d_subs, d_count, d_removed>>
    /\ UNCHANGED <<topicVars, allocHist, handleVars, registryVars, connectVars,
                   hassVars, besideLock>>

\* handle(): `handler(event)` returns `retain`, and `handlers.remove` follows
\* when it is false; `handlers` is still in scope.
handler_returns ==
    /\ lk_pc = "call"
    /\ LET id == lk_event.sub_id
           h == sub_handlers[id]
           res == call_handler(h, lk_event)
       IN
        /\ sub_handlers' = handlers_after(sub_handlers, id, res.retain, res.next)
        /\ waiters' = IF id \in DOMAIN waiters
                      THEN [waiters EXCEPT ![id] = waiter_after(@, h, res)]
                      ELSE waiters
        /\ d_removed' = IF res.retain THEN d_removed ELSE d_removed \cup {id}
        /\ d_last' = [sub_id |-> id, payload |-> lk_event.payload, registered |-> TRUE,
                      invoked |-> res.invoked, retain |-> res.retain,
                      after_removal |-> id \in d_removed, handler |-> h]
    /\ lk_pc' = "unlock"
    /\ UNCHANGED <<mutex, lk_event, lk_insert>>
    /\ UNCHANGED <<next_payload_id, registering, subscribed, dispatcher,
                   d_subs, d_count>>
    /\ UNCHANGED <<topicVars, allocHist, handleVars, registryVars, connectVars,
                   hassVars, besideLock>>

\* handle(): the block of `if let Some(sub_id)` ends and the guard is dropped.
unlock_after_dispatch ==
    /\ lk_pc = "unlock"
    /\ mutex' = "free"
    /\ lk_pc' = "recv"
    /\ lk_event' = [sub_id |-> 0]
    /\ UNCHANGED lk_insert
    /\ UNCHANGED dispatchVars
    /\ UNCHANGED <<topicVars, allocVars, handleVars, registryVars, connectVars,
                   hassVars, besideLock>>

LockNext ==
    \/ subscribe_sent \/ subscribe_failed \/ lock_for_insert \/ insert_handler
    \/ recv_event \/ lock_for_dispatch \/ handler_returns \/ unlock_after_dispatch

SpecLock == LockInit /\ [][LockNext]_vars

\* A subscribe_with_handler call is past `subscribe(topic).await?` and has
\* not got the lock.
AwaitingLock == registering # {}

\* C26: the Mutex around the handler map is not held by handle() while a
\* handler is being invoked, so no subscribe_with_handler awaits the lock for
\* as long as a handler runs.
C26_LockFreeDuringHandler ==
    lk_pc = "call" => (mutex = "free" \/ ~AwaitingLock)

\* C15: an inbound PUBLISH whose topic does not parse does not end the
\* dispatcher loop: handle() never returns the BadTopic error of recv, so it
\* is there to dispatch the messages that follow.
C15_BadTopicDoesNotStopDispatch ==
    /\ ~from_str(BadTopicName).ok
    /\ dispatcher # "BadTopic"

\* C36: no PUBLISH delivered for a subscription made by subscribe_with_handler
\* is dispatched while the call has still to insert its handler: the latest
\* PUBLISH dispatched does not carry the subscription id of a call that is
\* past its SUBSCRIBE and before its insert (such a PUBLISH finds no handler).
C36_NoPublishBeforeInsert ==
    \A r \in registering : d_last.sub_id # r.sub_id

\* C37: an inbound PUBLISH whose payload is not valid JSON (the empty payload
\* included) does not end the dispatcher loop: handle() never returns the
\* serde_json error of recv, so it is there to dispatch later messages.
C37_BadJsonDoesNotStopDispatch ==
    /\ \E payload \in Payloads : ~IsJson(payload)
    /\ dispatcher # "SerdeJson"

\* The handler is one that stays for good: a listen that is no oneshot, or
\* Buttons::listen.
LongLived(h) == h.kind = "buttons" \/ (h.kind = "listen" /\ ~h.oneshot)

\* The payload is not one the handler's listener takes.
Undecodable(h, payload) ==
    ~Decodes(IF h.kind = "buttons" THEN "ButtonAction" ELSE h.ty, payload)

\* C6: once handle() has called the handler registered for a subscription id
\* and it returned false, the id is no longer in the handler map, and a later
\* PUBLISH carrying that id finds no handler and invokes none; a handler that
\* returned true is still registered.
C6_HandlerDeregistration ==
    /\ (d_last.registered /\ ~d_last.retain) => d_last.sub_id \notin DOMAIN sub_handlers
    /\ (d_last.registered /\ d_last.retain) => d_last.sub_id \in DOMAIN sub_handlers
    /\ \A id \in d_removed : id \notin DOMAIN sub_handlers
    /\ d_last.after_removal => (~d_last.registered /\ ~d_last.invoked)

\* C6 witness: a PUBLISH arrived for a subscription id whose handler had
\* returned false before, and no handler ran.
C6_Witness ==
    /\ d_last.after_removal
    /\ d_last.sub_id \in d_removed
    /\ ~d_last.invoked

\* C7: a long-lived listen handler that was handed a payload it cannot decode
\* is still registered afterwards.
C7_ListenSurvivesUndecodable ==
    (/\ d_last.registered
     /\ LongLived(d_last.handler)
     /\ Undecodable(d_last.handler, d_last.payload))
        => d_last.sub_id \in DOMAIN sub_handlers

\* C8: the handler of a get that was handed a payload it cannot decode is
\* still registered afterwards (the message is skipped), and no get panics.
C8_GetSkipsUndecodable ==
    /\ (/\ d_last.registered
        /\ d_last.handler.kind = "listen"
        /\ d_last.handler.is_get
        /\ Undecodable(d_last.handler, d_last.payload))
            => d_last.sub_id \in DOMAIN sub_handlers
    /\ \A id \in DOMAIN waiters : waiters[id] # "panicked"

(***************************************************************************)
(* Entity and capability handles and what they publish (tanuki/src/lib.rs, *)
(* tanuki/src/capabilities).                                               *)
(***************************************************************************)
MaxCalls == 3         \* publish calls in a run (each takes one packet id)
MaxHandles == 2       \* capability handles held in a run

LIGHT == <<"tanuki.light">>
SENSOR == <<"tanuki.sensor">>
Capabilities == {LIGHT, BUTTONS, ON_OFF, SENSOR}
Roles == {"Authority", "User"}

STATE_KEY == <<"state">>       \* LightState::KEY
COMMAND_KEY == <<"command">>   \* the KEY of a command property
STATUS_KEY == <<"status">>
NAME_KEY == <<"name">>
VERSION_KEY == <<"version">>
VERSION == 0                   \* Capability::VERSION

\* PublishOpts presets
metadata == [qos |-> 1, retain |-> TRUE]
\* entity_data without the retain flag.
entity_data_unretained == [qos |-> 1, retain |-> FALSE]
entity_data == [qos |-> 1, retain |-> TRUE]
event == [qos |-> 2, retain |-> FALSE]
control == [qos |-> 2, retain |-> FALSE]

\* The PUBLISH that TanukiConnection::publish builds.  `via` and `op` are
\* history: the role of the handle the call was made through and the public
\* operation called on it.
Packet(topic, payload, opts, id, via, op) ==
    [topic_name |-> fmt(topic), payload |-> payload, qos |-> opts.qos,
     retain |-> opts.retain, packet_id |-> id, via |-> via, op |-> op]

\* TanukiConnection::publish: a packet id is taken; the packet is sent unless
\* building, register_packet_id or send fails (ok = FALSE), and then the call
\* returns the error.
publish(topic, payload, opts, via, op, ok) ==
    /\ next_payload_id <= MaxCalls
    /\ LET p == NextPayloadId(next_payload_id) IN
        /\ next_payload_id' = p.next
        /\ sent' = IF ok THEN Append(sent, Packet(topic, payload, opts, p.id, via, op))
                   ELSE sent

\* TanukiConnection::entity
entity ==
    /\ entities' = entities \cup {[id |-> LAMP, role |-> "User"]}
    /\ UNCHANGED <<capabilities, sent, next_payload_id>>
    /\ UNCHANGED <<topicVars, allocHist, dispatchVars, extVars>>

\* serde form of meta::EntityStatus::Online and ::Init
ONLINE == "\"online\""
INIT == "\"init\""

\* author_entity returning the handle whatever initialize returned.
author_entity_returns_always(ok) == TRUE

\* author_entity: `entity.initialize().await?; Ok(entity)` returns the handle
\* exactly when the status publish returned Ok.
author_entity_returns(ok) == ok

\* TanukiConnection::author_entity: TanukiEntity::<Authority>::initialize, then
\* the handle.
author_entity ==
    /\ \E ok \in BOOLEAN :
        /\ publish(EntityMeta(LAMP, STATUS_KEY), ONLINE, metadata,
                   "Authority", "author_entity", ok)
        /\ entities' = IF author_entity_returns(ok)
                       THEN entities \cup {[id |-> LAMP, role |-> "Authority"]}
                       ELSE entities
    /\ UNCHANGED capabilities
    /\ UNCHANGED <<topicVars, allocHist, dispatchVars, extVars>>

\* TanukiEntity<Authority>::publish_meta (here: meta::Name)
entity_publish_meta ==
    /\ [id |-> LAMP, role |-> "Authority"] \in entities
    /\ \E ok \in BOOLEAN :
        publish(EntityMeta(LAMP, NAME_KEY), "\"Lamp\"", metadata,
                "Authority", "publish_meta", ok)
    /\ UNCHANGED <<entities, capabilities>>
    /\ UNCHANGED <<topicVars, allocHist, dispatchVars, extVars>>

\* TanukiEntity<User>::capability
capability ==
    /\ [id |-> LAMP, role |-> "User"] \in entities
    /\ Cardinality(capabilities) < MaxHandles
    /\ \E c \in Capabilities :
        capabilities' = capabilities \cup
            {[entity |-> LAMP, capability |-> c, role |-> "User"]}
    /\ UNCHANGED <<entities, sent, next_payload_id>>
    /\ UNCHANGED <<topicVars, allocHist, dispatchVars, extVars>>

\* author_capability handing out the handle whatever initialize returned.
author_capability_returns_always(ok) == TRUE

\* author_capability: `cap.initialize(C::VERSION).await?; Ok(cap)` returns the
\* handle exactly when the version publish returned Ok.
author_capability_returns(ok) == ok

\* TanukiEntity<Authority>::author_capability
author_capability ==
    /\ [id |-> LAMP, role |-> "Authority"] \in entities
    /\ Cardinality(capabilities) < MaxHandles
    /\ \E c \in Capabilities, ok \in BOOLEAN :
        /\ publish(CapabilityMeta(LAMP, c, VERSION_KEY), VERSION, metadata,
                   "Authority", "author_capability", ok)
        /\ capabilities' =
            IF author_capability_returns(ok)
            THEN capabilities \cup {[entity |-> LAMP, capability |-> c, role |-> "Authority"]}
            ELSE capabilities
    /\ UNCHANGED entities
    /\ UNCHANGED <<topicVars, allocHist, dispatchVars, extVars>>

\* Light<Authority>::publish (LightState, entity_data)
light_publish ==
    /\ \E h \in capabilities, ok \in BOOLEAN :
        /\ h.capability = LIGHT /\ h.role = "Authority"
        /\ publish(CapabilityData(h.entity, h.capability, STATE_KEY), "{\"on\":true}",
                   entity_data, h.role, "publish", ok)
    /\ UNCHANGED <<entities, capabilities>>
    /\ UNCHANGED <<topicVars, allocHist, dispatchVars, extVars>>

\* What h.command(cmd) publishes, by the type of the handle: Light<R> has
\* `command` (light.rs), OnOff<R>, Sensor<R> and Buttons<R> have no such
\* operation.
command_packets(h) ==
    IF h.capability = LIGHT
    THEN {[topic |-> CapabilityData(h.entity, h.capability, COMMAND_KEY), opts |-> control]}
    ELSE {}

\* Light<R>::command, for either role
light_command ==
    /\ \E h \in capabilities, ok \in BOOLEAN :
        \E p \in command_packets(h) :
            publish(p.topic, "{\"on\":true}", p.opts, h.role, "command", ok)
    /\ UNCHANGED <<entities, capabilities>>
    /\ UNCHANGED <<topicVars, allocHist, dispatchVars, extVars>>

\* OnOff<Authority>::publish (On, entity_data)
on_off_publish ==
    /\ \E h \in capabilities, ok \in BOOLEAN :
        /\ h.capability = ON_OFF /\ h.role = "Authority"
        /\ publish(CapabilityData(h.entity, h.capability, <<"on">>), "true",
                   entity_data, h.role, "publish", ok)
    /\ UNCHANGED <<entities, capabilities>>
    /\ UNCHANGED <<topicVars, allocHist, dispatchVars, extVars>>

\* Sensor<Authority>::publish(key, payload), here the sensor "temperature"
sensor_publish ==
    /\ \E h \in capabilities, ok \in BOOLEAN :
        /\ h.capability = SENSOR /\ h.role = "Authority"
        /\ publish(CapabilityData(h.entity, h.capability, <<"temperature">>),
                   "{\"value\":21}", entity_data, h.role, "publish", ok)
    /\ UNCHANGED <<entities, capabilities>>
    /\ UNCHANGED <<topicVars, allocHist, dispatchVars, extVars>>

\* Buttons<Authority>::publish_action
buttons_publish_action ==
    /\ \E h \in capabilities, ok \in BOOLEAN :
        /\ h.capability = BUTTONS /\ h.role = "Authority"
        /\ publish(CapabilityData(h.entity, h.capability, <<"on">>), "\"pressed\"",
                   event, h.role, "publish_action", ok)
    /\ UNCHANGED <<entities, capabilities>>
    /\ UNCHANGED <<topicVars, allocHist, dispatchVars, extVars>>

\* TanukiCapability<R>::publish_raw, public and reached through Deref from a
\* capability handle of either role; the caller picks topic and presets.
publish_raw ==
    /\ \E h \in capabilities, ok \in BOOLEAN :
        \E call \in {[rest |-> STATE_KEY, payload |-> "{\"on\":true}", opts |-> entity_data],
                     [rest |-> STATE_KEY, payload |-> "{\"on\":true}", opts |-> event],
                     [rest |-> <<"on">>, payload |-> "\"pressed\"", opts |-> event]} :
            publish(CapabilityData(h.entity, h.capability, call.rest), call.payload,
                    call.opts, h.role, "publish_raw", ok)
    /\ UNCHANGED <<entities, capabilities>>
    /\ UNCHANGED <<topicVars, allocHist, dispatchVars, extVars>>

\* TanukiCapability<R>::initialize(version), public and reached through Deref
\* from a capability handle of either role.
initialize ==
    /\ \E h \in capabilities, ok \in BOOLEAN, version \in {VERSION, VERSION + 1} :
        publish(CapabilityMeta(h.entity, h.capability, VERSION_KEY), version, metadata,
                h.role, "initialize", ok)
    /\ UNCHANGED <<entities, capabilities>>
    /\ UNCHANGED <<topicVars, allocHist, dispatchVars, extVars>>

Init ==
    /\ ConnectionInit
    /\ ExtIdle
    /\ TopicIdle

Next ==
    \/ entity \/ author_entity \/ entity_publish_meta
    \/ capability \/ author_capability
    \/ light_publish \/ light_command \/ buttons_publish_action
    \/ on_off_publish \/ sensor_publish
    \/ publish_raw \/ initialize

Spec == Init /\ [][Next]_vars

\* The Topic a sent packet was addressed to.
TopicOf(m) == from_str(m.topic_name).val

\* m is the retained version publish of (entity, capability) with C::VERSION.
IsVersionPublish(m, e, c) ==
    /\ TopicOf(m) = CapabilityMeta(e, c, VERSION_KEY)
    /\ m.payload = VERSION
    /\ m.retain

\* C9: every packet published through a User-role handle is a command (none
\* is a state value, an event or a meta field).
C9_UserPublishesOnlyCommands ==
    \A i \in 1..Len(sent) :
        sent[i].via = "User" =>
            /\ TopicOf(sent[i]).tag = "CapabilityData"
            /\ TopicOf(sent[i]).rest = COMMAND_KEY

\* C10: for every Authority capability handle the retained version publish of
\* its (entity, capability) has been sent, and it comes before every data
\* publish made through an Authority handle of that (entity, capability); so
\* no handle exists whose version publish failed.
C10_VersionBeforeData ==
    /\ \A h \in capabilities :
        h.role = "Authority" =>
            \E j \in 1..Len(sent) : IsVersionPublish(sent[j], h.entity, h.capability)
    /\ \A i \in 1..Len(sent) :
        (sent[i].via = "Authority" /\ TopicOf(sent[i]).tag = "CapabilityData") =>
            \E j \in 1..(i - 1) :
                IsVersionPublish(sent[j], TopicOf(sent[i]).entity, TopicOf(sent[i]).capability)

\* C10 witness: a state was published through an Authority Light handle.
C10_Witness ==
    \E i \in 1..Len(sent) :
        /\ sent[i].op = "publish"
        /\ sent[i].via = "Authority"
        /\ TopicOf(sent[i]) = CapabilityData(LAMP, LIGHT, STATE_KEY)

\* m is the status publish of entity e with value online.
IsOnlinePublish(m, e) ==
    /\ TopicOf(m) = EntityMeta(e, STATUS_KEY)
    /\ m.payload = ONLINE

\* C11: for every Authority entity handle the entity meta status publish with
\* value online has been sent, the publish author_entity makes never carries
\* init, and that publish comes before every other publish made through
\* Authority handles of the entity; so no handle exists whose status publish
\* failed.
C11_OnlineBeforeHandle ==
    /\ \A h \in entities :
        h.role = "Authority" =>
            \E j \in 1..Len(sent) :
                sent[j].op = "author_entity" /\ IsOnlinePublish(sent[j], h.id)
    /\ \A i \in 1..Len(sent) :
        /\ sent[i].op = "author_entity" =>
            (IsOnlinePublish(sent[i], TopicOf(sent[i]).entity) /\ sent[i].payload # INIT)
        /\ (sent[i].via = "Authority" /\ sent[i].op # "author_entity") =>
            \E j \in 1..(i - 1) :
                sent[j].op = "author_entity" /\ IsOnlinePublish(sent[j], TopicOf(sent[i]).entity)

\* C11 witness: a meta field was published through an Authority entity handle
\* after its author_entity.
C11_Witness ==
    \E i \in 1..Len(sent) :
        /\ sent[i].op = "publish_meta"
        /\ sent[i].via = "Authority"
        /\ [id |-> LAMP, role |-> "Authority"] \in entities

\* The four presets.
Presets == {metadata, entity_data, event, control}

\* The preset that goes with a topic: meta topics take metadata, a command
\* key control, a button (the capability tanuki.buttons) event, and every
\* other data topic entity_data.
PresetOf(t) ==
    IF t.tag \in {"EntityMeta", "CapabilityMeta"} THEN metadata
    ELSE IF t.rest = COMMAND_KEY THEN control
    ELSE IF t.capability = BUTTONS THEN event
    ELSE entity_data

\* The options a packet was sent with.
OptsOf(m) == [qos |-> m.qos, retain |-> m.retain]

\* C13 as stated: every packet sent carries the preset of its kind: meta and
\* state or sensor data QoS 1 retained, button events and commands QoS 2 not
\* retained.
C13_EveryPublishUsesItsPreset ==
    \A i \in 1..Len(sent) :
        /\ OptsOf(sent[i]) \in Presets
        /\ OptsOf(sent[i]) = PresetOf(TopicOf(sent[i]))

\* C13 amended: every packet sent by an operation other than publish_raw
\* carries the preset of its kind (publish_raw sends with the options its
\* caller passes).
C13_TypedPublishUsesItsPreset ==
    \A i \in 1..Len(sent) :
        sent[i].op # "publish_raw" =>
            /\ OptsOf(sent[i]) \in Presets
            /\ OptsOf(sent[i]) = PresetOf(TopicOf(sent[i]))
            /\ (TopicOf(sent[i]).tag # "CapabilityData" \/ sent[i].op = "publish")
                    => (sent[i].qos = 1 /\ sent[i].retain)
            /\ sent[i].op \in {"publish_action", "command"}
                    => (sent[i].qos = 2 /\ ~sent[i].retain)

\* C13 witness: Sensor<Authority>::publish("temperature", ..) went out on the
\* sensor's topic, retained, with QoS 1.
C13_Witness ==
    \E i \in 1..Len(sent) :
        /\ sent[i].op = "publish"
        /\ TopicOf(sent[i]) = CapabilityData(LAMP, SENSOR, <<"temperature">>)
        /\ sent[i].retain
        /\ sent[i].qos = 1

\* The capabilities tanuki-common defines a command for (OnOffCommand,
\* LightCommand).
Commanded == {ON_OFF, LIGHT}

\* Handle h has a command operation, and it publishes on the command topic of
\* h with the control preset.
CanCommand(h) ==
    \E p \in command_packets(h) :
        /\ p.topic = CapabilityData(h.entity, h.capability, COMMAND_KEY)
        /\ p.opts = control

\* C14: every command sent went to CapabilityData{rest = the command key} with
\* the control preset, and every handle, of either role, of a capability that
\* has a command (so an OnOff<User> on lamp) can issue one.
C14_CommandFromEitherRole ==
    /\ \A i \in 1..Len(sent) :
        sent[i].op = "command" =>
            /\ TopicOf(sent[i]).tag = "CapabilityData"
            /\ TopicOf(sent[i]).rest = COMMAND_KEY
            /\ OptsOf(sent[i]) = control
    /\ \A h \in capabilities :
        h.capability \in Commanded => CanCommand(h)

(***************************************************************************)
(* The registry of authored entities (tanuki/src/registry.rs).            *)
(***************************************************************************)
MaxLookups == 3       \* registry lookups in a run

\* registry.rs get(): the entity map, the capability map, whether init was
\* called and whether the lookup returned Ok.  owned_ok, init_ok and cap_ok are
\* the results of `tanuki.owned_entity(id).await?`, `init(&entity).await?` and
\* `entity.capability::<T>().await?` when the lookup gets that far.
\* registry.rs get() with the new entity handed to the capability but not
\* kept in the entity map.
get_entity_not_kept(ents, cap_map, id, owned_ok, init_ok, cap_ok) ==
    IF id \in cap_map THEN
        [entities |-> ents, cap_map |-> cap_map, init_called |-> FALSE, ok |-> TRUE,
         cached |-> TRUE, status_sent |-> 0, version_sent |-> 0]
    ELSE IF id \in ents THEN
        [entities |-> ents,
         cap_map |-> IF cap_ok THEN cap_map \cup {id} ELSE cap_map,
         init_called |-> FALSE, ok |-> cap_ok,
         cached |-> FALSE, status_sent |-> 0,
         version_sent |-> IF cap_ok THEN 1 ELSE 0]
    ELSE IF ~owned_ok THEN
        [entities |-> ents, cap_map |-> cap_map, init_called |-> FALSE, ok |-> FALSE,
         cached |-> FALSE, status_sent |-> 0, version_sent |-> 0]
    ELSE IF ~init_ok THEN
        [entities |-> ents, cap_map |-> cap_map, init_called |-> TRUE, ok |-> FALSE,
         cached |-> FALSE, status_sent |-> 1, version_sent |-> 0]
    ELSE
        [entities |-> ents,
         cap_map |-> IF cap_ok THEN cap_map \cup {id} ELSE cap_map,
         init_called |-> TRUE, ok |-> cap_ok,
         cached |-> FALSE, status_sent |-> 1,
         version_sent |-> IF cap_ok THEN 1 ELSE 0]

\* registry.rs get() with a cache hit that initializes the capability again.
get_reinitialize(ents, cap_map, id, owned_ok, init_ok, cap_ok) ==
    IF id \in cap_map \/ id \in ents THEN
        [entities |-> ents,
         cap_map |-> IF cap_ok THEN cap_map \cup {id} ELSE cap_map,
         init_called |-> FALSE, ok |-> cap_ok,
         cached |-> id \in cap_map, status_sent |-> 0,
         version_sent |-> IF cap_ok THEN 1 ELSE 0]
    ELSE IF ~owned_ok THEN
        [entities |-> ents, cap_map |-> cap_map, init_called |-> FALSE, ok |-> FALSE,
         cached |-> FALSE, status_sent |-> 0, version_sent |-> 0]
    ELSE IF ~init_ok THEN
        [entities |-> ents, cap_map |-> cap_map, init_called |-> TRUE, ok |-> FALSE,
         cached |-> FALSE, status_sent |-> 1, version_sent |-> 0]
    ELSE
        [entities |-> ents \cup {id},
         cap_map |-> IF cap_ok THEN cap_map \cup {id} ELSE cap_map,
         init_called |-> TRUE, ok |-> cap_ok,
         cached |-> FALSE, status_sent |-> 1,
         version_sent |-> IF cap_ok THEN 1 ELSE 0]

\* registry.rs get().  status_sent and version_sent count the meta publishes
\* that went through: owned_entity publishes EntityStatus::Online
\* (TanukiEntity<Authority>::initialize) and the capability constructor
\* publishes meta::Version (TanukiCapability::initialize); either returns Err
\* when its publish fails.  A cache hit returns before any of them.
get(ents, cap_map, id, owned_ok, init_ok, cap_ok) ==
    IF id \in cap_map THEN
        [entities |-> ents, cap_map |-> cap_map, init_called |-> FALSE, ok |-> TRUE,
         cached |-> TRUE, status_sent |-> 0, version_sent |-> 0]
    ELSE IF id \in ents THEN
        [entities |-> ents,
         cap_map |-> IF cap_ok THEN cap_map \cup {id} ELSE cap_map,
         init_called |-> FALSE, ok |-> cap_ok,
         cached |-> FALSE, status_sent |-> 0,
         version_sent |-> IF cap_ok THEN 1 ELSE 0]
    ELSE IF ~owned_ok THEN
        [entities |-> ents, cap_map |-> cap_map, init_called |-> FALSE, ok |-> FALSE,
         cached |-> FALSE, status_sent |-> 0, version_sent |-> 0]
    ELSE IF ~init_ok THEN
        [entities |-> ents, cap_map |-> cap_map, init_called |-> TRUE, ok |-> FALSE,
         cached |-> FALSE, status_sent |-> 1, version_sent |-> 0]
    ELSE
        [entities |-> ents \cup {id},
         cap_map |-> IF cap_ok THEN cap_map \cup {id} ELSE cap_map,
         init_called |-> TRUE, ok |-> cap_ok,
         cached |-> FALSE, status_sent |-> 1,
         version_sent |-> IF cap_ok THEN 1 ELSE 0]

\* What every lookup does beside its own capability map.
lookup(r, id, map) ==
    /\ lookups < MaxLookups
    /\ lookups' = lookups + 1
    /\ registry_entities' = r.entities
    /\ init_calls' = IF r.init_called
                     THEN [init_calls EXCEPT ![id] = @ + 1]
                     ELSE init_calls
    /\ status_published' = [status_published EXCEPT ![id] = @ + r.status_sent]
    /\ version_published' = [version_published EXCEPT ![<<id, map>>] = @ + r.version_sent]
    /\ failed_lookups' = IF r.ok THEN failed_lookups ELSE failed_lookups + 1
    /\ last_lookup' = [cached |-> r.cached, sent |-> r.status_sent + r.version_sent,
                       ok |-> r.ok]

\* Registry::sensor
sensor ==
    /\ \E id \in EntityIds, owned_ok \in BOOLEAN, init_ok \in BOOLEAN, cap_ok \in BOOLEAN :
        LET r == get(registry_entities, sensors, id, owned_ok, init_ok, cap_ok) IN
        /\ lookup(r, id, "sensors")
        /\ sensors' = r.cap_map
    /\ UNCHANGED <<on_offs, lights>>
    /\ UNCHANGED <<coreVars, connectVars, hassVars, pureVars>>

\* Registry::on_off
on_off ==
    /\ \E id \in EntityIds, owned_ok \in BOOLEAN, init_ok \in BOOLEAN, cap_ok \in BOOLEAN :
        LET r == get(registry_entities, on_offs, id, owned_ok, init_ok, cap_ok) IN
        /\ lookup(r, id, "on_offs")
        /\ on_offs' = r.cap_map
    /\ UNCHANGED <<sensors, lights>>
    /\ UNCHANGED <<coreVars, connectVars, hassVars, pureVars>>

\* Registry::light
light ==
    /\ \E id \in EntityIds, owned_ok \in BOOLEAN, init_ok \in BOOLEAN, cap_ok \in BOOLEAN :
        LET r == get(registry_entities, lights, id, owned_ok, init_ok, cap_ok) IN
        /\ lookup(r, id, "lights")
        /\ lights' = r.cap_map
    /\ UNCHANGED <<sensors, on_offs>>
    /\ UNCHANGED <<coreVars, connectVars, hassVars, pureVars>>

RegistryInit ==
    /\ ConnectionInit
    /\ ExtIdle
    /\ TopicIdle

RegistryNext == sensor \/ on_off \/ light

SpecRegistry == RegistryInit /\ [][RegistryNext]_vars

\* C12: over any sequence of registry lookups, failing ones included, the
\* caller-supplied entity_init has been invoked at most once for each EntityId.
C12_EntityInitAtMostOnce ==
    \A id \in EntityIds : init_calls[id] <= 1

\* C39: every id with a capability handle in the sensor, on_off or light map
\* has an entity in the entity map; so a light lookup for an id that has an
\* OnOff handle (the on_off lookup before it returned Ok) does not call its
\* entity_init, whatever its publishes return.
C39_CapabilityHasEntity ==
    /\ (sensors \cup on_offs \cup lights) \subseteq registry_entities
    /\ \A id \in on_offs : \A owned_ok \in BOOLEAN, init_ok \in BOOLEAN, cap_ok \in BOOLEAN :
        ~get(registry_entities, lights, id, owned_ok, init_ok, cap_ok).init_called

\* An on_off lookup created the entity and a light lookup for the same id
\* followed: entity_init ran once.
C39_Witness ==
    \E id \in EntityIds :
        /\ id \in on_offs /\ id \in lights /\ id \notin sensors
        /\ init_calls[id] = 1
        /\ lookups = 2

\* C25: a lookup for a cached (EntityId, capability type) pair returns Ok and
\* sends no publish; and while every lookup made so far returned Ok, the
\* `status` meta has been published at most once for each entity and the
\* `version` meta at most once for each (entity, capability) pair.
C25_CachedLookupSilent ==
    /\ last_lookup.cached => (last_lookup.ok /\ last_lookup.sent = 0)
    /\ failed_lookups = 0 =>
        /\ \A id \in EntityIds : status_published[id] <= 1
        /\ \A pair \in EntityIds \X CapMaps : version_published[pair] <= 1

\* Three successful lookups: two capabilities of one entity created, then one
\* of them looked up again from the cache.
C25_Witness ==
    /\ lookups = MaxLookups /\ failed_lookups = 0
    /\ last_lookup.cached
    /\ \E id \in EntityIds :
        /\ id \in sensors /\ id \in lights
        /\ status_published[id] = 1
        /\ version_published[<<id, "sensors">>] = 1
        /\ version_published[<<id, "lights">>] = 1

(***************************************************************************)
(* TanukiConnection::connect (tanuki/src/lib.rs).                          *)
(***************************************************************************)
MaxConnects == 3      \* connect calls in a run

\* The packets a broker may send first: a CONNACK that accepts the session, a
\* CONNACK that refuses it (a reason code of 0x80 or above), and packets that
\* are no CONNACK.
FirstPackets == {"CONNACK_success", "CONNACK_refused", "PUBLISH", "PINGRESP"}

\* `packet.try_into()` for Connack: Ok exactly for a CONNACK packet; the reason
\* code is not looked at.
try_into_connack(packet) == packet \in {"CONNACK_success", "CONNACK_refused"}

\* The call returns: its result joins the history.
connect_returns(has_handle, err, connect_sent, first) ==
    /\ c_results' = Append(c_results, [handle |-> has_handle, err |-> err,
                                       connect_sent |-> connect_sent, first |-> first])
    /\ c_pc' = "idle"
    /\ c_first' = "none"

\* connect: connect_helper::connect_tcp(addr, None).await?
connect_tcp ==
    /\ c_pc = "idle"
    /\ Len(c_results) < MaxConnects
    /\ \/ c_pc' = "tcp" /\ UNCHANGED <<c_results, c_first>>
       \/ connect_returns(FALSE, "Io", FALSE, "none")
    /\ UNCHANGED <<coreVars, registryVars, hassVars, pureVars>>

\* connect: endpoint.attach(transport, Mode::Client).await?
attach ==
    /\ c_pc = "tcp"
    /\ \/ c_pc' = "attached" /\ UNCHANGED <<c_results, c_first>>
       \/ connect_returns(FALSE, "MqttConnection", FALSE, "none")
    /\ UNCHANGED <<coreVars, registryVars, hassVars, pureVars>>

\* connect: endpoint.send(connect).await?
send_connect ==
    /\ c_pc = "attached"
    /\ \/ c_pc' = "sent" /\ UNCHANGED <<c_results, c_first>>
       \/ connect_returns(FALSE, "MqttConnection", FALSE, "none")
    /\ UNCHANGED <<coreVars, registryVars, hassVars, pureVars>>

\* connect: endpoint.recv().await?, the conversion to Connack, and the handle.
recv_connack ==
    /\ c_pc = "sent"
    /\ \/ connect_returns(FALSE, "MqttConnection", TRUE, "none")
       \/ \E packet \in FirstPackets :
            IF try_into_connack(packet)
            THEN connect_returns(TRUE, "none", TRUE, packet)
            ELSE connect_returns(FALSE, "MqttPacketField", TRUE, packet)
    /\ UNCHANGED <<coreVars, registryVars, hassVars, pureVars>>

ConnectInit ==
    /\ ConnectionInit
    /\ ExtIdle
    /\ TopicIdle

ConnectNext == connect_tcp \/ attach \/ send_connect \/ recv_connack

SpecConnect == ConnectInit /\ [][ConnectNext]_vars

\* C16: every connect call that returned a handle had sent CONNECT and then
\* received, as its first packet, a CONNACK that accepts the session; a call
\* whose first packet was no CONNACK, or a CONNACK refusing the session,
\* returned an error and no handle.
C16_HandleOnlyAfterValidConnack ==
    \A i \in 1..Len(c_results) :
        /\ c_results[i].handle =>
            (c_results[i].connect_sent /\ c_results[i].first = "CONNACK_success")
        /\ c_results[i].first \in FirstPackets \ {"CONNACK_success"} =>
            (~c_results[i].handle /\ c_results[i].err # "none")

(***************************************************************************)
(* The Home Assistant WebSocket client (tanuki-hass/src/hass.rs).          *)
(***************************************************************************)
MaxServiceCalls == 2  \* call_service calls in a run
MaxServerFrames == 2  \* frames the reader task reads in a run

\* AtomicU32::fetch_add(1) on the pair of halves: the value after, wrapping
\* modulo 2^32.
U32Succ(n) ==
    IF n[2] = U16 - 1 THEN U32((n[1] + 1) % U16, 0) ELSE U32(n[1], n[2] + 1)

U32Less(a, b) == a[1] < b[1] \/ (a[1] = b[1] /\ a[2] < b[2])

\* The closure next_id on a counter value: the PacketId returned and the
\* counter afterwards.  fetch_add returns the old value; when that is 0 the
\* second fetch_add's old value is returned.
next_id(counter) ==
    IF counter = U32(0, 0)
    THEN [id |-> U32Succ(counter), next |-> U32Succ(U32Succ(counter))]
    ELSE [id |-> counter, next |-> U32Succ(counter)]

\* The frames the server side of the WebSocket may yield during the
\* handshake: the three auth messages, a text frame that is no auth message,
\* a frame that is no text, the end of the stream, and a transport error.
ServerFrames ==
    {[frame |-> "text", type |-> "auth_required"],
     [frame |-> "text", type |-> "auth_ok"],
     [frame |-> "text", type |-> "auth_invalid", message |-> "Invalid access token"],
     [frame |-> "text", type |-> "event"],
     [frame |-> "binary"],
     [frame |-> "closed"],
     [frame |-> "error"]}

AuthTypes == {"auth_required", "auth_ok", "auth_invalid"}

HassErr(kind, message) == [kind |-> kind, message |-> message]

\* get_message on what conn.next() yielded.
get_message(f) ==
    IF f.frame = "text" THEN
        IF f.type \in AuthTypes THEN [ok |-> TRUE, val |-> f]
        ELSE [ok |-> FALSE, err |-> HassErr("Serialization", "")]
    ELSE IF f.frame = "binary" THEN
        [ok |-> FALSE, err |-> HassErr("Protocol", "expected text message")]
    ELSE IF f.frame = "error" THEN
        [ok |-> FALSE, err |-> HassErr("WebSocket", "")]
    ELSE
        [ok |-> FALSE, err |-> HassErr("Protocol", "connection closed unexpectedly")]

In(f) == [dir |-> "in", frame |-> f]
Out(type, id) == [dir |-> "out", type |-> type, id |-> id]

\* connect returns Err(e).
hass_fails(e) ==
    /\ h_pc' = "failed"
    /\ h_error' = e

\* connect: tokio_tungstenite::connect_async(addr).await?
connect_async ==
    /\ h_pc = "start"
    /\ \/ h_pc' = "auth_required" /\ UNCHANGED h_error
       \/ hass_fails(HassErr("WebSocket", ""))
    /\ UNCHANGED <<h_log, h_queue, h_id, h_writer, h_reader, h_packets, h_calls, h_ids>>
    /\ UNCHANGED <<coreVars, registryVars, connectVars, pureVars>>

\* connect: the first get_message and the match on it.
expect_auth_required ==
    /\ h_pc = "auth_required"
    /\ \E f \in ServerFrames :
        LET m == get_message(f) IN
        /\ h_log' = Append(h_log, In(f))
        /\ IF ~m.ok THEN hass_fails(m.err)
           ELSE IF m.val.type = "auth_required" THEN h_pc' = "auth" /\ UNCHANGED h_error
           ELSE hass_fails(HassErr("Protocol", "expected AuthRequired message"))
    /\ UNCHANGED <<h_queue, h_id, h_writer, h_reader, h_packets, h_calls, h_ids>>
    /\ UNCHANGED <<coreVars, registryVars, connectVars, pureVars>>

\* connect: conn.send(auth { access_token }).await?
send_auth ==
    /\ h_pc = "auth"
    /\ \/ /\ h_log' = Append(h_log, Out("auth", U32(0, 0)))
          /\ h_pc' = "auth_result"
          /\ UNCHANGED h_error
       \/ /\ hass_fails(HassErr("WebSocket", ""))
          /\ UNCHANGED h_log
    /\ UNCHANGED <<h_queue, h_id, h_writer, h_reader, h_packets, h_calls, h_ids>>
    /\ UNCHANGED <<coreVars, registryVars, connectVars, pureVars>>

\* The initial requests queued the other way round.
initial_requests_swapped == <<"get_states", "subscribe_events">>

\* The two requests connect queues after the handshake, in the order of its
\* tx.send calls.
InitialRequests == <<"subscribe_events", "get_states">>

\* connect: the second get_message and the match on it; on auth_ok the writer
\* task is spawned, the initial requests are queued, the reader task is
\* spawned and the handle is returned.
expect_auth_result ==
    /\ h_pc = "auth_result"
    /\ \E f \in ServerFrames :
        LET m == get_message(f) IN
        /\ h_log' = Append(h_log, In(f))
        /\ IF ~m.ok THEN
                hass_fails(m.err) /\ UNCHANGED <<h_queue, h_writer, h_reader>>
           ELSE IF m.val.type = "auth_ok" THEN
                /\ h_pc' = "session"
                /\ h_writer' = "running"
                /\ h_queue' = InitialRequests
                /\ h_reader' = "running"
                /\ UNCHANGED h_error
           ELSE IF m.val.type = "auth_invalid" THEN
                /\ hass_fails(HassErr("Authentication", m.val.message))
                /\ UNCHANGED <<h_queue, h_writer, h_reader>>
           ELSE
                /\ hass_fails(HassErr("Protocol", "expected auth outcome"))
                /\ UNCHANGED <<h_queue, h_writer, h_reader>>
    /\ UNCHANGED <<h_id, h_packets, h_calls, h_ids>>
    /\ UNCHANGED <<coreVars, registryVars, connectVars, pureVars>>

\* The writer task, one turn of its loop: rx.recv(), next_id(), conn_tx.send;
\* a send error ends the task.
writer ==
    /\ h_writer = "running"
    /\ h_queue # <<>>
    /\ LET n == next_id(h_id) IN
        /\ h_id' = n.next
        /\ h_queue' = Tail(h_queue)
        /\ \/ /\ h_log' = Append(h_log, Out(Head(h_queue), n.id))
              /\ UNCHANGED h_writer
           \/ /\ h_writer' = "stopped"
              /\ UNCHANGED h_log
    /\ UNCHANGED <<h_pc, h_error, h_reader, h_packets, h_calls, h_ids>>
    /\ UNCHANGED <<coreVars, registryVars, connectVars, pureVars>>

\* HomeAssistant::call_service, from any holder of the handle: the message
\* joins the channel (with the writer gone, tx.send fails and unwrap panics;
\* nothing is queued).
call_service ==
    /\ h_pc = "session"
    /\ h_calls < MaxServiceCalls
    /\ h_calls' = h_calls + 1
    /\ h_queue' = IF h_writer = "running" THEN Append(h_queue, "call_service") ELSE h_queue
    /\ UNCHANGED <<h_pc, h_error, h_log, h_id, h_writer, h_reader, h_packets, h_ids>>
    /\ UNCHANGED <<coreVars, registryVars, connectVars, pureVars>>

\* The frames received, in order.
FramesReceived == SelectSeq(h_log, LAMBDA e : e.dir = "in")

\* A result message: the id of the request it answers, success, and the
\* kind of JSON in `result` ("states": a list of state objects).
ResultFrame(id, success, result) ==
    [frame |-> "text", type |-> "result", id |-> id, success |-> success, result |-> result]

\* An event message of the subscription made by request 1.
EventFrame(event_type) ==
    [frame |-> "text", type |-> "event", id |-> U32(0, 1), event_type |-> event_type]

\* The frames the server may send in the session: results answering
\* subscribe_events (id 1), get_states (id 2) and a call_service (id 3),
\* events of the two modelled types and of another type, a ping, a frame
\* that is neither text nor ping, the end of the stream and a transport error.
SessionFrames ==
    {ResultFrame(U32(0, 1), TRUE, "null"),
     ResultFrame(U32(0, 2), TRUE, "states"),
     ResultFrame(U32(0, 2), FALSE, "null"),
     ResultFrame(U32(0, 3), TRUE, "object"),
     ResultFrame(U32(0, 3), TRUE, "states"),
     EventFrame("state_changed"), EventFrame("zha_event"), EventFrame("call_service"),
     [frame |-> "ping"], [frame |-> "binary"], [frame |-> "closed"], [frame |-> "error"]}

\* serde_json::from_str::<Packet<ServerMessage>> succeeds: a result, or an
\* event whose event_type is a variant of EventData.
parses(f) ==
    \/ f.type = "result"
    \/ (f.type = "event" /\ f.event_type \in {"state_changed", "zha_event"})

\* The reader task, one turn of its loop: a text frame is parsed (expect
\* panics when it does not parse) and forwarded, a ping or another frame is
\* skipped, a transport error or the end of the stream panics the task.
reader ==
    /\ h_reader = "running"
    /\ Len(FramesReceived) < 2 + MaxServerFrames  \* two frames were read by the handshake
    /\ \E f \in SessionFrames :
        /\ h_log' = Append(h_log, In(f))
        /\ h_packets' = IF f.frame = "text" /\ parses(f) THEN Append(h_packets, f)
                        ELSE h_packets
        /\ h_reader' = IF f.frame \in {"closed", "error"} \/ (f.frame = "text" /\ ~parses(f))
                        THEN "panicked" ELSE "running"
    /\ UNCHANGED <<h_pc, h_error, h_queue, h_id, h_writer, h_calls, h_ids>>
    /\ UNCHANGED <<coreVars, registryVars, connectVars, pureVars>>

HassInit ==
    /\ ConnectionInit
    /\ ExtIdle
    /\ TopicIdle

HassNext ==
    \/ connect_async \/ expect_auth_required \/ send_auth \/ expect_auth_result
    \/ writer \/ call_service \/ reader

SpecHass == HassInit /\ [][HassNext]_vars

\* The frames written after the auth message: the session messages.
SessionMessages == SelectSeq(h_log, LAMBDA e : e.dir = "out" /\ e.type # "auth")

\* Entry i of the log is the received auth message of the given type.
Received(i, type) ==
    /\ h_log[i].dir = "in"
    /\ h_log[i].frame \in ServerFrames
    /\ h_log[i].frame.frame = "text"
    /\ h_log[i].frame.type = type

\* C17: the auth message (the access token) is written only after
\* auth_required was received; no session message is written before auth_ok
\* was received; and the first two session messages are subscribe_events and
\* then get_states, so every call_service comes after both.
C17_HandshakeOrder ==
    /\ \A i \in 1..Len(h_log) :
        h_log[i].dir = "out" =>
            IF h_log[i].type = "auth"
            THEN \E j \in 1..(i - 1) : Received(j, "auth_required")
            ELSE \E j \in 1..(i - 1) : Received(j, "auth_ok")
    /\ Len(SessionMessages) >= 1 => SessionMessages[1].type = "subscribe_events"
    /\ Len(SessionMessages) >= 2 => SessionMessages[2].type = "get_states"

\* C17 witness: a call_service has been written, after the two initial
\* requests.
C17_Witness ==
    /\ Len(SessionMessages) >= 3
    /\ SessionMessages[3].type = "call_service"

\* The handshake failed on the frame it read last: the first frame was not
\* auth_required, or the second frame was not auth_ok.
FailedOnFrame ==
    /\ h_pc = "failed"
    /\ \/ Len(h_log) = 1 /\ ~Received(1, "auth_required")
       \/ Len(h_log) = 3

LastFrame == h_log[Len(h_log)].frame

\* C18: when the handshake fails on a received frame, an auth_invalid outcome
\* gives the Authentication error with the server's message; every other
\* unexpected message (a first message that is not auth_required, a second
\* message that is no outcome, a frame that is not text) and a closed socket
\* give a Protocol error; and in every failure no session message was written
\* and neither task runs.
C18_HandshakeFailures ==
    /\ FailedOnFrame /\ LastFrame.frame # "error" =>
        IF Len(h_log) = 3 /\ Received(3, "auth_invalid")
        THEN h_error = HassErr("Authentication", LastFrame.message)
        ELSE h_error.kind = "Protocol"
    /\ h_pc = "failed" =>
        (SessionMessages = <<>> /\ h_writer = "none" /\ h_reader = "none")

(***************************************************************************)
(* bridge() of tanuki-hass around the client: its connects, the dispatcher *)
(* task it spawns and its main loop (tanuki-hass/src/lib.rs).              *)
(***************************************************************************)

\* bridge(): `HomeAssistant::connect(..).await?`, then
\* `TanukiConnection::connect(..).await?`, the spawn of the dispatcher task
\* and the to_hass listeners, up to the main loop.
bridge_start ==
    /\ br_pc = "connecting"
    /\ h_pc \in {"session", "failed"}
    /\ IF h_pc = "failed"
       THEN br_pc' = "returned" /\ br_error' = h_error.kind
       ELSE \/ br_pc' = "running" /\ br_error' = "none"
            \/ br_pc' = "returned" /\ br_error' = "Tanuki"
    /\ UNCHANGED br_log
    /\ UNCHANGED <<coreVars, registryVars, connectVars, hassVars, besideBridge>>

\* The task spawned at lib.rs 63-70, one turn of the loop of handle(): when
\* handle() returns its error the task logs it and ends.
dispatcher_task ==
    /\ br_pc = "running"
    /\ handle

\* One turn of the main loop on the packet p: what is done with it and how
\* the loop goes on.  tanuki_ok is the result of the registry lookups and
\* publishes made on the way (`?` returns their error).
on_packet(p, tanuki_ok) ==
    IF p.type = "result" THEN
        IF ~p.success THEN [did |-> "none", pc |-> "returned", err |-> "Hass"]
        ELSE IF p.result = "states" THEN
            [did |-> "propagate_states",
             pc |-> IF tanuki_ok THEN "running" ELSE "returned",
             err |-> IF tanuki_ok THEN "none" ELSE "Tanuki"]
        ELSE [did |-> "none", pc |-> "running", err |-> "none"]
    ELSE
        [did |-> IF p.event_type = "state_changed" THEN "propagate_state"
                 ELSE "publish_actions",
         pc |-> IF tanuki_ok THEN "running" ELSE "returned",
         err |-> IF tanuki_ok THEN "none" ELSE "Tanuki"]

\* bridge(): one turn of the main loop: `hass_rx.recv().await` yields the
\* next packet, or None once the reader task is gone and the channel is
\* drained, on which the bridge panics.
bridge_loop ==
    /\ br_pc = "running"
    /\ \/ /\ h_packets # <<>>
          /\ h_packets' = Tail(h_packets)
          /\ \E tanuki_ok \in BOOLEAN :
                LET o == on_packet(Head(h_packets), tanuki_ok) IN
                /\ br_log' = Append(br_log, [packet |-> Head(h_packets), did |-> o.did,
                                             dispatcher |-> dispatcher])
                /\ br_pc' = o.pc
                /\ br_error' = o.err
       \/ /\ h_packets = <<>>
          /\ h_reader = "panicked"
          /\ br_pc' = "panicked"
          /\ UNCHANGED <<h_packets, br_error, br_log>>
    /\ UNCHANGED <<h_pc, h_error, h_log, h_queue, h_id, h_writer, h_reader, h_calls, h_ids>>
    /\ UNCHANGED <<coreVars, registryVars, connectVars, besideBridge>>

BridgeInit ==
    /\ ConnectionInit
    /\ ExtIdle
    /\ TopicIdle

BridgeNext ==
    \/ connect_async \/ expect_auth_required \/ send_auth \/ expect_auth_result
    \/ writer \/ reader \/ bridge_start \/ dispatcher_task \/ bridge_loop

SpecBridge == BridgeInit /\ [][BridgeNext]_vars

\* The id the writer task gave the get_states request.
GetStatesIds == {h_log[i].id : i \in {j \in 1..Len(h_log) :
                                        h_log[j].dir = "out" /\ h_log[j].type = "get_states"}}

\* C31: the bridge propagates the states of a result only when the result's
\* id is the id the get_states request was sent with.
C31_OnlyGetStatesResultPropagates ==
    \A i \in 1..Len(br_log) :
        br_log[i].did = "propagate_states" => br_log[i].packet.id \in GetStatesIds

\* The frames the reader task has read.
SessionRead == SubSeq(FramesReceived, 3, Len(FramesReceived))

\* C34: after authentication a WebSocket error or close does not panic the
\* reader task or the bridge: the bridge returns an error value.
C34_TransportFailureReturned ==
    (\E i \in 1..Len(SessionRead) : SessionRead[i].frame.frame \in {"closed", "error"})
        => (h_reader # "panicked" /\ br_pc # "panicked")

\* C35: once handle() has returned the error of a failed MQTT recv, the
\* bridge takes no further packet from Home Assistant.
C35_NoEventsWithoutDispatcher ==
    \A i \in 1..Len(br_log) : br_log[i].dispatcher # "MqttConnection"

\* C38: an event whose event_type is neither state_changed nor zha_event is
\* ignored: it stops neither the reader task nor the bridge.
C38_OtherEventsIgnored ==
    (\E i \in 1..Len(SessionRead) :
        /\ SessionRead[i].frame.frame = "text"
        /\ SessionRead[i].frame.type = "event"
        /\ SessionRead[i].frame.event_type \notin {"state_changed", "zha_event"})
        => (h_reader = "running" /\ br_pc # "panicked")

(***************************************************************************)
(* The id counter of the writer task on its own, started from any value    *)
(* the AtomicU32 passes through in a long session.                          *)
(***************************************************************************)
MaxIds == 3   \* ids taken in a run
IdSpan == 8   \* counter values tried on each side of a 16-bit boundary

\* The values the counter starts from: those around 0, around 2^16, and
\* around 2^32 - 1.
CounterStarts ==
    {U32(hi, lo) : hi \in {0, U16 - 1},
                   lo \in (0..(IdSpan - 1)) \cup ((U16 - IdSpan)..(U16 - 1))}

\* The writer task stamping one message: next_id() and the id it wrote.
take_id ==
    /\ Len(h_ids) < MaxIds
    /\ LET n == next_id(h_id) IN
        /\ h_ids' = Append(h_ids, n.id)
        /\ h_id' = n.next
    /\ UNCHANGED <<h_pc, h_error, h_log, h_queue, h_writer, h_reader, h_packets, h_calls>>
    /\ UNCHANGED <<coreVars, registryVars, connectVars, pureVars>>

HassIdsInit ==
    /\ ConnectionInit
    /\ TopicIdle
    /\ ExtIdleButId
    /\ h_id \in CounterStarts

HassIdsNext == take_id

SpecHassIds == HassIdsInit /\ [][HassIdsNext]_vars

\* C19: every id written is non-zero, and each id is greater than the id
\* written before it, however many messages the session has written.
C19_IdsNonZeroIncreasing ==
    \A i \in 1..Len(h_ids) :
        /\ h_ids[i] # U32(0, 0)
        /\ i > 1 => U32Less(h_ids[i - 1], h_ids[i])

(***************************************************************************)
(* Decoding a JSON object as Color (tanuki-common capabilities/light).     *)
(***************************************************************************)
MaxKeys == 6   \* keys in a decoded object
MaxOdd == 2    \* values of an object that are not integers in 0..255

U8Fields == {"r", "g", "b", "w", "cw", "ww"}
F32Fields == {"h", "s", "x", "y"}

\* The keys an object may carry: the fields of the variants and a key no
\* variant has.
Keys == U8Fields \cup F32Fields \cup {"foreign"}

\* The kinds of JSON value: an integer in 0..255, another number (an integer
\* outside 0..255 or a number with a fraction), a string.
Kinds == {"byte", "number", "text"}

\* The variants of Color in declaration order, the order an untagged enum
\* tries them in.
Variants == <<"Rgbww", "Rgbw", "Rgb", "Hs", "Xy">>

\* The fields of a variant.
Fields(v) ==
    CASE v = "Rgbww" -> {"r", "g", "b", "cw", "ww"}
      [] v = "Rgbw" -> {"r", "g", "b", "w"}
      [] v = "Rgb" -> {"r", "g", "b"}
      [] v = "Hs" -> {"h", "s"}
      [] v = "Xy" -> {"x", "y"}

\* Deserializing a value of the given kind into the field's type: u8 takes an
\* integer in 0..255, f32 takes any number.
fits(key, kind) ==
    IF key \in U8Fields THEN kind = "byte" ELSE kind \in {"byte", "number"}

\* A variant decoded with unknown fields ignored.
variant_ok_allow_unknown(v, obj) ==
    /\ Fields(v) \subseteq DOMAIN obj
    /\ \A k \in Fields(v) : fits(k, obj[k])

\* The derived struct-variant visitor on an object: every key is a field of
\* the variant (deny_unknown_fields), no field is missing, and every value
\* deserializes into its field's type.
variant_ok(v, obj) ==
    /\ DOMAIN obj \subseteq Fields(v)
    /\ Fields(v) \subseteq DOMAIN obj
    /\ \A k \in Fields(v) : fits(k, obj[k])

\* The derived untagged Deserialize for Color: the first variant, in
\* declaration order, that decodes the object; an error when none does.
from_value(obj) ==
    LET ok == {i \in 1..Len(Variants) : variant_ok(Variants[i], obj)} IN
    IF ok = {} THEN [called |-> TRUE, ok |-> FALSE, variant |-> "none"]
    ELSE [called |-> TRUE, ok |-> TRUE,
          variant |-> Variants[CHOOSE i \in ok : \A j \in ok : i <= j]]

\* serde_json::from_value::<Color>(col_obj)
decode_color ==
    /\ ~col_result.called
    /\ col_result' = from_value(col_obj)
    /\ UNCHANGED col_obj
    /\ UNCHANGED <<coreVars, registryVars, connectVars, hassVars, besideColor>>

ColorInit ==
    /\ ConnectionInit
    /\ TopicIdle
    /\ ExtIdleButColor
    /\ PureIdleExcept({"color"})
    /\ col_result = NotDecoded
    /\ \E K \in SUBSET Keys :
        /\ Cardinality(K) <= MaxKeys
        /\ \E O \in SUBSET K :
            /\ Cardinality(O) <= MaxOdd
            /\ \E f \in [O -> {"number", "text"}] :
                col_obj = [k \in K |-> IF k \in O THEN f[k] ELSE "byte"]

ColorNext == decode_color

SpecColor == ColorInit /\ [][ColorNext]_vars

Decoded == col_result.called

\* Every value under a variant's field name deserializes into the field's
\* type.
WellTyped(obj) == \A k \in DOMAIN obj \ {"foreign"} : fits(k, obj[k])

VariantNames == {Variants[i] : i \in 1..Len(Variants)}

\* C20 as stated: decoding yields variant V exactly when the key set of the
\* object equals the field set of V; an object matching no variant, or one
\* carrying a foreign key, fails to decode.
C20_DecodeByKeySet ==
    Decoded =>
        /\ \A v \in VariantNames :
            (col_result.ok /\ col_result.variant = v) <=> (DOMAIN col_obj = Fields(v))
        /\ "foreign" \in DOMAIN col_obj => ~col_result.ok

\* C20 amended: for an object whose values fit the types of the fields they
\* are named after (integers in 0..255 under r, g, b, w, cw, ww; numbers
\* under h, s, x, y), decoding yields variant V exactly when the key set
\* equals the field set of V; whatever its values, an object whose key set
\* is no variant's field set, or which carries a foreign key, fails to
\* decode, and so does an object with a value that does not fit its field.
C20_DecodeByKeySetWellTyped ==
    Decoded =>
        /\ WellTyped(col_obj) =>
            \A v \in VariantNames :
                (col_result.ok /\ col_result.variant = v) <=> (DOMAIN col_obj = Fields(v))
        /\ col_result.ok => \E v \in VariantNames : DOMAIN col_obj = Fields(v)
        /\ "foreign" \in DOMAIN col_obj => ~col_result.ok
        /\ ~WellTyped(col_obj) => ~col_result.ok

\* C20 witness: an object with the keys r, g, b was decoded as Rgb, after
\* Rgbww and Rgbw refused it.
C20_Witness ==
    /\ Decoded
    /\ DOMAIN col_obj = {"r", "g", "b"}
    /\ col_result.ok
    /\ col_result.variant = "Rgb"

(***************************************************************************)
(* Decoding a BTHome service-data blob (tanuki-bthome bthome/object.rs).   *)
(***************************************************************************)
MaxBody == 4   \* bytes after the three leading bytes of a decoded blob

\* The bytes a blob is made of: the headers of the five supported
\* (length, type) pairs and of an unsupported one, the five known object ids
\* and unknown ones, and value bytes.
BlobBytes == {1, 2, 3, 9, 12, 16, 34, 35, 67, 69, 83, 232}

Take(s, n) == SubSeq(s, 1, n)
Drop(s, n) == SubSeq(s, n + 1, Len(s))

\* Object::decode panicked (Buf::copy_to_bytes or Buf::get_u8 past the end).
BtPanic == [called |-> TRUE, panic |-> TRUE, out |-> <<>>]

\* Object::decode returned the objects.
BtOk(out) == [called |-> TRUE, panic |-> FALSE, out |-> out]

\* A value read as an integer, and a value read as the four bytes of an f32.
IntVal(n) == [kind |-> "int", n |-> n]
F32Val(bits) == [kind |-> "f32", bits |-> bits]

\* The match on (len, ty): the value of the record rec (object id first), or
\* none for an unimplemented combination.
record_value(len, ty, rec) ==
    CASE len = 2 /\ ty = 0 -> [ok |-> TRUE, val |-> IntVal(rec[2])]
      [] len = 3 /\ ty = 0 -> [ok |-> TRUE, val |-> IntVal(rec[2] + 256 * rec[3])]
      [] len = 2 /\ ty = 1 ->
            [ok |-> TRUE, val |-> IntVal(IF rec[2] >= 128 THEN rec[2] - 256 ELSE rec[2])]
      [] len = 3 /\ ty = 1 ->
            [ok |-> TRUE,
             val |-> IntVal(IF rec[3] >= 128 THEN rec[2] + 256 * rec[3] - 65536
                            ELSE rec[2] + 256 * rec[3])]
      [] len = 5 /\ ty = 2 -> [ok |-> TRUE, val |-> F32Val(SubSeq(rec, 2, 5))]
      [] OTHER -> [ok |-> FALSE]

\* value > 0. on the value read: an f32 is positive when its sign bit is
\* clear and it is neither zero nor a NaN.
positive(v) ==
    IF v.kind = "int" THEN v.n > 0
    ELSE LET b == v.bits IN
         /\ b[4] < 128
         /\ b # <<0, 0, 0, 0>>
         /\ ~(b[4] = 127 /\ b[3] >= 128 /\ (b[3] > 128 \/ b[2] > 0 \/ b[1] > 0))

\* An object carrying value * (1 / per).
Scaled(name, v, per) == [object |-> name, value |-> v, per |-> per]

\* The match on object_id: the object made of the value, or none for an
\* unknown id.
object_of(object_id, v) ==
    CASE object_id = 1 -> [ok |-> TRUE, val |-> Scaled("Battery", v, 1)]
      [] object_id = 2 -> [ok |-> TRUE, val |-> Scaled("Temperature", v, 100)]
      [] object_id = 3 -> [ok |-> TRUE, val |-> Scaled("Humidity", v, 100)]
      [] object_id = 12 -> [ok |-> TRUE, val |-> Scaled("Voltage", v, 1000)]
      [] object_id = 16 -> [ok |-> TRUE, val |-> [object |-> "Power", on |-> positive(v)]]
      [] OTHER -> [ok |-> FALSE]

\* The while loop of Object::decode on the bytes that remain.
RECURSIVE decode_records(_, _)
decode_records(data, out) ==
    IF data = <<>> THEN BtOk(out)
    ELSE
        LET header == Head(data)
            len == header % 32
            ty == header \div 32
            rest == Tail(data)
        IN
        IF Len(rest) < len THEN BtPanic          \* copy_to_bytes(len)
        ELSE IF len = 0 THEN BtPanic             \* get_u8 on the empty record
        ELSE
            LET rec == Take(rest, len)
                v == record_value(len, ty, rec)
                o == object_of(rec[1], v.val)
            IN
            IF ~v.ok THEN decode_records(Drop(rest, len), out)
            ELSE IF ~o.ok THEN decode_records(Drop(rest, len), out)
            ELSE decode_records(Drop(rest, len), Append(out, o.val))

\* Object::decode without the skip of the leading bytes.
decode_no_skip(data) == decode_records(data, <<>>)

\* Object::decode
decode(data) ==
    IF Len(data) < 3 THEN BtPanic                \* copy_to_bytes(3)
    ELSE decode_records(Drop(data, 3), <<>>)

\* Object::decode(bt_data)
decode_blob ==
    /\ ~bt_result.called
    /\ bt_result' = decode(bt_data)
    /\ UNCHANGED bt_data
    /\ UNCHANGED <<coreVars, registryVars, connectVars, hassVars, besideBthome>>

MaxRecords == 3   \* records in a blob put together from whole records

\* Records as they stand in a blob, header byte first: well-formed ones of a
\* known object id, ..
GoodRecords ==
    {<<2, 1, 83>>,            \* (2, 0) Battery 83
     <<35, 2, 232, 9>>,       \* (3, 1) Temperature 2536 x 0.01
     <<2, 16, 1>>}            \* (2, 0) Power on

\* .. whole records of an unknown object id or of a (length, type) pair that
\* is not implemented, the pair (0, 0) of a header without a record included.
OddRecords ==
    {<<2, 9, 83>>,            \* (2, 0), unknown id 0x09
     <<67, 2, 232, 9>>,       \* (3, 2), not implemented
     <<1, 1>>,                \* (1, 0), not implemented
     <<0>>}                   \* (0, 0), not implemented

Records == GoodRecords \cup OddRecords

RECURSIVE Concat(_)
Concat(ss) == IF ss = <<>> THEN <<>> ELSE Head(ss) \o Concat(Tail(ss))

\* The blobs: three leading bytes and up to MaxBody bytes after them, a
\* blob cut short within its leading bytes, or three leading bytes and up to
\* MaxRecords whole records.
BthomeInit ==
    /\ ConnectionInit
    /\ TopicIdle
    /\ ExtIdleButColor
    /\ PureIdleExcept({"bthome"})
    /\ bt_result = [called |-> FALSE]
    /\ \/ \E n \in 0..2 : bt_data = [i \in 1..n |-> 0]
       \/ \E n \in 0..MaxBody : \E body \in [1..n -> BlobBytes] :
            bt_data = <<0, 0, 0>> \o body
       \/ \E n \in 1..MaxRecords : \E recs \in [1..n -> Records] :
            bt_data = <<0, 0, 0>> \o Concat(recs)

BthomeNext == decode_blob

SpecBthome == BthomeInit /\ [][BthomeNext]_vars

\* The bytes after the three leading bytes.
Body == Drop(bt_data, 3)

\* C21 as stated: with records read by the header rule, the bytes
\* [00 00 00, 23, 01, 53] decode to [Battery(83)] and the bytes
\* [00 00 00, 43, 02, E8, 09] decode to [Temperature(0x09E8 x 0.01)].
C21_SpecExamples ==
    bt_result.called =>
        /\ bt_data = <<0, 0, 0, 35, 1, 83>> =>
            bt_result = BtOk(<<Scaled("Battery", IntVal(83), 1)>>)
        /\ bt_data = <<0, 0, 0, 67, 2, 232, 9>> =>
            bt_result = BtOk(<<Scaled("Temperature", IntVal(2536), 100)>>)

\* C21 amended: decoding skips three bytes and reads records whose header's
\* low five bits are the record length (object id included) and high three
\* bits the type code, so the bytes [00 00 00, 02, 01, 53] (length 2, type 0)
\* decode to [Battery(83)] and the bytes [00 00 00, 23, 02, E8, 09]
\* (length 3, type 1) decode to [Temperature(0x09E8 x 0.01)]; the header 23
\* followed by two bytes asks for a third and does not decode, and the
\* header 43 (length 3, type 2) is of no supported kind and yields nothing.
C21_DecodeExamples ==
    bt_result.called =>
        /\ bt_data = <<0, 0, 0, 2, 1, 83>> =>
            bt_result = BtOk(<<Scaled("Battery", IntVal(83), 1)>>)
        /\ bt_data = <<0, 0, 0, 35, 2, 232, 9>> =>
            bt_result = BtOk(<<Scaled("Temperature", IntVal(2536), 100)>>)
        /\ bt_data = <<0, 0, 0, 35, 1, 83>> => bt_result = BtPanic
        /\ bt_data = <<0, 0, 0, 67, 2, 232, 9>> => bt_result = BtOk(<<>>)
        /\ (Len(bt_data) > 3 /\ Len(Body) = 1 + (Body[1] % 32) /\ (Body[1] % 32) > 0) =>
            /\ ~bt_result.panic
            /\ Len(bt_result.out) <= 1
            /\ (Body[1] = 2 /\ Body[2] = 1) =>
                bt_result.out = <<Scaled("Battery", IntVal(Body[3]), 1)>>

\* C21 witness: the temperature record of length 3 and type 1 was decoded.
C21_Witness ==
    /\ bt_result.called
    /\ bt_data = <<0, 0, 0, 35, 2, 232, 9>>
    /\ bt_result = BtOk(<<Scaled("Temperature", IntVal(2536), 100)>>)

\* The blob is three leading bytes and the whole records recs.
MadeOf(recs) == bt_data = <<0, 0, 0>> \o Concat(recs)

\* The object a well-formed record of a known id stands for.
ObjectOf(rec) ==
    object_of(rec[2], record_value(rec[1] % 32, rec[1] \div 32, Tail(rec)).val).val

RECURSIVE ObjectsOf(_)
ObjectsOf(recs) ==
    IF recs = <<>> THEN <<>>
    ELSE IF Head(recs) \in GoodRecords
         THEN <<ObjectOf(Head(recs))>> \o ObjectsOf(Tail(recs))
         ELSE ObjectsOf(Tail(recs))

\* C32: a blob of whole records, some of an unknown object id or of a
\* (length, type) pair that is not implemented, decodes to the objects of its
\* well-formed records of known ids, in input order: each odd record is passed
\* over by its header byte and its length bytes and nothing after it is lost.
C32_OddRecordsSkipped ==
    bt_result.called =>
        \A n \in 1..MaxRecords : \A recs \in [1..n -> Records] :
            MadeOf(recs) => bt_result = BtOk(ObjectsOf(recs))

\* The same with a record held to carry at least its object id (a header of
\* length 0 left out): this much the decoder does.
OddRecordsWithIdSkipped ==
    bt_result.called =>
        \A n \in 1..MaxRecords : \A recs \in [1..n -> Records \ {<<0>>}] :
            MadeOf(recs) => bt_result = BtOk(ObjectsOf(recs))

\* C40: Object::decode returns a list without panicking, whatever the bytes:
\* a blob shorter than three bytes, a header of length 0, a length past the
\* end of the blob.
C40_DecodeNeverPanics ==
    bt_result.called => ~bt_result.panic

(***************************************************************************)
(* bridge() of tanuki-bthome: the main loop over the updates of the        *)
(* advertisement stream (tanuki-bthome/src/lib.rs).  Strings are sequences *)
(* of characters.                                                          *)
(***************************************************************************)
MaxUpdates == 2   \* updates the stream yields in a run
MaxObjects == 1   \* objects in an update

UpperCase == {"A", "T", "C", "H"}
LowerCase == {"a", "t", "c", "h"}
Digits == {"0", "1", "2"}
ToLower == [c \in UpperCase \cup LowerCase \cup Digits |->
                CASE c = "A" -> "a" [] c = "T" -> "t" [] c = "C" -> "c" [] c = "H" -> "h"
                  [] OTHER -> c]
IsAlphanumeric(c) == c \in DOMAIN ToLower

\* heck's transform from character i on: words are split at every character
\* that is not alphanumeric, after a lowercase run when an uppercase letter
\* follows, and before the last letter of an uppercase run when a lowercase
\* letter follows; each word is lowercased and the words are joined by "_".
\* mode is the case of the letters of the word so far, sep whether a word
\* ended since the last character written.
RECURSIVE snake_from(_, _, _, _, _)
snake_from(str, i, mode, out, sep) ==
    IF i > Len(str) THEN out
    ELSE
        LET c == str[i] IN
        IF ~IsAlphanumeric(c) THEN snake_from(str, i + 1, "boundary", out, out # <<>>)
        ELSE
            LET has_next == i < Len(str) /\ IsAlphanumeric(str[i + 1])
                next_mode == IF c \in LowerCase THEN "lowercase"
                             ELSE IF c \in UpperCase THEN "uppercase" ELSE mode
                joined == (IF sep THEN Append(out, "_") ELSE out)
                split_before == /\ has_next /\ mode = "uppercase" /\ c \in UpperCase
                                /\ str[i + 1] \in LowerCase
                split_after == /\ has_next /\ next_mode = "lowercase"
                               /\ str[i + 1] \in UpperCase
            IN
            IF split_after
            THEN snake_from(str, i + 1, "boundary", Append(joined, ToLower[c]), TRUE)
            ELSE IF split_before
            THEN snake_from(str, i + 1, "boundary",
                            Append(Append(out, "_"), ToLower[c]), FALSE)
            ELSE snake_from(str, i + 1, next_mode, Append(joined, ToLower[c]), FALSE)

\* str.to_snake_case()
to_snake_case(str) == snake_from(str, 1, "boundary", <<>>, FALSE)

\* The names devices advertise and the addresses they advertise from.
ATC_1 == <<"A", "T", "C", " ", "1">>
DeviceNames == {ATC_1, <<"t", "H", "2">>, <<"A", "T", "c">>}
Addresses == {<<"0", "1">>, <<"0", "2">>}

\* A row of the user's table: key, entity id, display name.
BY_NAME == <<ATC_1, <<"h", "a", "t">>, <<"H", "a", "t">>>>
BY_ADDRESS == <<<<"0", "1">>, <<"c", "a", "t">>, <<"C", "a", "t">>>>

\* The tables a run is given.
IdMaps == SUBSET {BY_NAME, BY_ADDRESS}

\* bridge() lines 26-31: the rows collected into a HashMap.
collect(rows) ==
    [k \in {r[1] : r \in rows} |->
        LET r == CHOOSE r \in rows : r[1] = k IN [id |-> r[2], name |-> r[3]]]

\* The lookup with the address tried before the name.
resolve_address_first(table, name, address) ==
    IF address \in DOMAIN table THEN table[address]
    ELSE IF name \in DOMAIN table THEN table[name]
    ELSE [id |-> to_snake_case(name), name |-> name]

\* id_map.get(name).or_else(|| id_map.get(address)).cloned()
\*     .unwrap_or((name.to_snake_case(), name))
resolve(table, name, address) ==
    IF name \in DOMAIN table THEN table[name]
    ELSE IF address \in DOMAIN table THEN table[address]
    ELSE [id |-> to_snake_case(name), name |-> name]

\* A publish of the bridge: the entity and what is published.
Meta(id, key, value) == [entity |-> id, what |-> key, value |-> value]
Data(id, n) == [entity |-> id, what |-> "data", value |-> n]

\* The publishes of the Entry::Vacant arm, in order: the entity's creation
\* (status), name, type, provider, and the capability's creation (version).
registration(id, name) ==
    <<Meta(id, "status", <<>>), Meta(id, "name", name), Meta(id, "type", <<>>),
      Meta(id, "provider", <<>>), Meta(id, "version", <<>>)>>

\* One turn of the main loop: the stream yields an update (or an error, or
\* ends); an unknown address is registered and its Sensor handle kept; the
\* update's objects are published through the handle.  A publish that fails
\* returns its error from bridge (`?`); failed_at is that publish, 0 for none.
on_update ==
    /\ bb_pc = "running"
    /\ Len(bb_log) < MaxUpdates
    /\ \/ /\ bb_pc' = "returned"       \* Some(Err(e)): `?`
          /\ UNCHANGED <<bb_devices, bb_log>>
       \/ /\ bb_pc' = "panicked"       \* None: expect
          /\ UNCHANGED <<bb_devices, bb_log>>
       \/ \E name \in DeviceNames, address \in Addresses, objects \in 0..MaxObjects :
            LET known == address \in DOMAIN bb_devices
                r == resolve(bb_table, name, address)
                id == IF known THEN bb_devices[address] ELSE r.id
                first == IF known THEN <<>> ELSE registration(r.id, r.name)
                all == first \o [n \in 1..objects |-> Data(id, n)]
            IN
            \E failed_at \in 0..Len(all) :
                /\ bb_devices' = IF ~known /\ (failed_at = 0 \/ failed_at > Len(first))
                                 THEN With(bb_devices, address, r.id)
                                 ELSE bb_devices
                /\ bb_pc' = IF failed_at = 0 THEN "running" ELSE "returned"
                /\ bb_log' = Append(bb_log,
                        [name |-> name, address |-> address, known |-> known,
                         objects |-> objects,
                         published |-> IF failed_at = 0 THEN all
                                       ELSE SubSeq(all, 1, failed_at - 1)])
    /\ UNCHANGED bb_table
    /\ UNCHANGED <<coreVars, registryVars, connectVars, hassVars, besideSensors>>

SensorsInit ==
    /\ ConnectionInit
    /\ TopicIdle
    /\ ExtIdleButColor
    /\ PureIdleExcept({"sensors"})
    /\ \E rows \in IdMaps : bb_table = collect(rows)
    /\ bb_devices = <<>> /\ bb_pc = "running" /\ bb_log = <<>>

SensorsNext == on_update

SpecSensors == SensorsInit /\ [][SensorsNext]_vars

\* Update i is the first one from its address.
FirstFrom(i) == \A j \in 1..(i - 1) : bb_log[j].address # bb_log[i].address

\* What is published is meta (of the registration) or sensor data.
MetaOf(published) == SelectSeq(published, LAMBDA m : m.what # "data")
DataOf(published) == SelectSeq(published, LAMBDA m : m.what = "data")

WhatOf(published) == [m \in 1..Len(published) |-> published[m].what]

\* The entity id the claim gives an update: from the table by name, else by
\* address, else the snake_case of the name.
ClaimedId(name, address) ==
    IF name \in DOMAIN bb_table THEN bb_table[name].id
    ELSE IF address \in DOMAIN bb_table THEN bb_table[address].id
    ELSE to_snake_case(name)

\* C33: over the updates of a run, an update that is not the first from its
\* address publishes no meta, only sensor data, on the entity registered for
\* the address; the first update from an address publishes the meta of the
\* registration (status, name, type, provider, version, each at most once and
\* in this order) before any data, on the entity id taken from the table by
\* name, else by address, else the snake_case of the advertised name
\* ("ATC 1" gives atc_1, "tH2" gives t_h2, "ATc" gives a_tc).
C33_RegisteredOnce ==
    /\ \A i \in 1..Len(bb_log) :
        LET e == bb_log[i]
            id == ClaimedId(e.name, e.address)
        IN
        IF FirstFrom(i)
        THEN /\ \E k \in 0..5 :
                    WhatOf(MetaOf(e.published)) = SubSeq(WhatOf(registration(id, <<>>)), 1, k)
             /\ \A m \in 1..Len(e.published) : e.published[m].entity = id
             /\ DataOf(e.published) # <<>> => Len(MetaOf(e.published)) = 5
        ELSE /\ MetaOf(e.published) = <<>>
             /\ \E j \in 1..(i - 1) :
                    /\ FirstFrom(j) /\ bb_log[j].address = e.address
                    /\ \A m \in 1..Len(e.published) :
                            e.published[m].entity = ClaimedId(bb_log[j].name, e.address)
    /\ to_snake_case(ATC_1) = <<"a", "t", "c", "_", "1">>
    /\ to_snake_case(<<"t", "H", "2">>) = <<"t", "_", "h", "2">>
    /\ to_snake_case(<<"A", "T", "c">>) = <<"a", "_", "t", "c">>

\* An address in the table by address, advertising a name that is in the
\* table by name, was registered under the name's id; a second update from
\* it under another name published data only.
C33_Witness ==
    /\ Len(bb_log) >= 2
    /\ DOMAIN bb_table = {BY_NAME[1], BY_ADDRESS[1]}
    /\ bb_log[1].address = BY_ADDRESS[1] /\ bb_log[1].name = ATC_1
    /\ Len(bb_log[1].published) >= 5
    /\ bb_log[1].published[1].entity = BY_NAME[2]
    /\ bb_log[2].address = BY_ADDRESS[1] /\ bb_log[2].name # ATC_1
    /\ bb_log[2].published = <<Data(BY_NAME[2], 1)>>

(***************************************************************************)
(* The bridge on a zha_event (tanuki-hass/src/lib.rs, ZhaEvent arm).       *)
(***************************************************************************)
MaxTranslations == 2   \* translations in the ZhaCommands mapping

RODRET == "88:0f:62:ff:fe:4f:86:e1"
Ieees == {RODRET, "00:00:00:00:00:00:00:00"}
ZhaCommandNames == {"on", "move_with_on_off"}

\* A JSON value used as params: an object (key -> value) or a value that is
\* no object (null).
ParamsObject(map) == [object |-> TRUE, map |-> map]
ParamsNull == [object |-> FALSE, map |-> <<>>]

\* The objects over move_mode (0 or 1) and transition_time (5).
ParamObjects ==
    {ParamsObject([k \in K |-> IF k = "move_mode" THEN m ELSE 5]) :
        K \in SUBSET {"move_mode", "transition_time"}, m \in {0, 1}}

\* The params an event may carry, and those a translation may ask for.
EventParams == ParamObjects \cup {ParamsNull}
TranslationParams ==
    {p \in ParamObjects : p.map = <<>> \/ "move_mode" \in DOMAIN p.map} \cup {ParamsNull}

ButtonActions == {"pressed", "long_pressed"}

ZhaEvents == [device_ieee : Ieees, command : ZhaCommandNames, params : EventParams]

ZhaEventTranslations ==
    [command : ZhaCommandNames, params : TranslationParams,
     button : {"on"}, action : ButtonActions]

\* params.as_object().unwrap_or(&empty_map)
as_object_or_empty(params) == IF params.object THEN params.map ELSE <<>>

\* The mismatch test compared both ways.
mismatch_symmetric(left_params, right_params) ==
    \/ \E k \in DOMAIN left_params :
        IF k \in DOMAIN right_params THEN right_params[k] # left_params[k] ELSE TRUE
    \/ \E k \in DOMAIN right_params : k \notin DOMAIN left_params

\* left_params.iter().any(|(k, v)| match right_params.get(k) { Some(rv) =>
\* rv != v, None => true })
mismatch(left_params, right_params) ==
    \E k \in DOMAIN left_params :
        IF k \in DOMAIN right_params THEN right_params[k] # left_params[k] ELSE TRUE

\* The translation passes both `continue` tests of the loop body.
translation_matches(translation, ev) ==
    /\ translation.command = ev.command
    /\ ~mismatch(as_object_or_empty(translation.params), as_object_or_empty(ev.params))

\* The publish_action calls the loop over the translations makes when none
\* fails, in order.
RECURSIVE publish_actions(_, _, _)
publish_actions(translations, ev, i) ==
    IF i > Len(translations) THEN <<>>
    ELSE IF translation_matches(translations[i], ev)
        THEN <<[translation |-> i, button |-> translations[i].button,
                action |-> translations[i].action]>>
             \o publish_actions(translations, ev, i + 1)
        ELSE publish_actions(translations, ev, i + 1)

\* The ZhaEvent arm for the mapping: nothing for another device; otherwise
\* the loop over the translations, which a failing registry.get or
\* publish_action leaves with `?` after the publishes made so far.
on_zha_event ==
    /\ ~zha_out.done
    /\ LET all == IF zha_event.device_ieee # RODRET THEN <<>>
                  ELSE publish_actions(zha_table, zha_event, 1)
       IN \E k \in 0..Len(all) :
            zha_out' = [done |-> TRUE, ok |-> k = Len(all), published |-> SubSeq(all, 1, k)]
    /\ UNCHANGED <<zha_event, zha_table>>
    /\ UNCHANGED <<coreVars, registryVars, connectVars, hassVars, besideZha>>

ZhaInit ==
    /\ ConnectionInit
    /\ TopicIdle
    /\ ExtIdleButColor
    /\ PureIdleExcept({"zha"})
    /\ zha_out = ZhaNotDone
    /\ zha_event \in ZhaEvents
    /\ \E n \in 0..MaxTranslations : zha_table \in [1..n -> ZhaEventTranslations]

ZhaNext == on_zha_event

SpecZha == ZhaInit /\ [][ZhaNext]_vars

\* The event was handled for its device and no publish failed.
ZhaHandled == zha_out.done /\ zha_out.ok /\ zha_event.device_ieee = RODRET

\* The translations the event satisfies, by position in the table.
RECURSIVE SatisfiedFrom(_)
SatisfiedFrom(i) ==
    IF i > Len(zha_table) THEN <<>>
    ELSE IF translation_matches(zha_table[i], zha_event) THEN <<i>> \o SatisfiedFrom(i + 1)
    ELSE SatisfiedFrom(i + 1)

\* C22: for one zha_event and the mapping of its device, at most one
\* ButtonAction is published, and it is the action of the first translation
\* in table order that the event satisfies.
C22_FirstTranslationOnly ==
    ZhaHandled =>
        /\ Len(zha_out.published) <= 1
        /\ SatisfiedFrom(1) # <<>> =>
            /\ Len(zha_out.published) = 1
            /\ zha_out.published[1].translation = Head(SatisfiedFrom(1))

\* The translations whose ButtonAction was published.
PublishedTranslations ==
    {zha_out.published[i].translation : i \in 1..Len(zha_out.published)}

\* A translation asks for nothing: its params are empty or no object.
AsksNothing(t) == ~t.params.object \/ t.params.map = <<>>

\* The event carries every key the translation asks for, with an equal value.
CarriesAll(t, e) ==
    /\ e.params.object
    /\ \A k \in DOMAIN t.params.map :
        k \in DOMAIN e.params.map /\ e.params.map[k] = t.params.map[k]

\* C28: a translation is satisfied by an event (its action is published)
\* exactly when the commands are equal and every key of the translation's
\* params is in the event's params with an equal value, extra keys of the
\* event being ignored; a translation with empty or non-object params is
\* satisfied by any event with its command, and an event with non-object
\* params satisfies only translations that ask for nothing.
C28_ParamsSubsetMatch ==
    ZhaHandled =>
        /\ \A i \in 1..Len(zha_table) :
            i \in PublishedTranslations <=>
                /\ zha_table[i].command = zha_event.command
                /\ AsksNothing(zha_table[i]) \/ CarriesAll(zha_table[i], zha_event)
        /\ ~zha_event.params.object =>
            \A i \in PublishedTranslations : AsksNothing(zha_table[i])

\* C28 witness: the event move_with_on_off {move_mode: 0, transition_time: 5}
\* satisfied the translation move_with_on_off {move_mode: 0}, its extra key
\* ignored, and long_pressed was published on button on.
C28_Witness ==
    /\ ZhaHandled
    /\ zha_event.command = "move_with_on_off"
    /\ zha_event.params = ParamsObject([k \in {"move_mode", "transition_time"} |->
                                            IF k = "move_mode" THEN 0 ELSE 5])
    /\ \E i \in PublishedTranslations :
        /\ zha_table[i].params = ParamsObject([k \in {"move_mode"} |-> 0])
        /\ zha_out.published = <<[translation |-> i, button |-> "on", action |-> "long_pressed"]>>

(***************************************************************************)
(* CapMapping::propagate_state (tanuki-hass/src/entity/mod.rs).            *)
(***************************************************************************)
U8 == 256   \* the values of a u8

\* The state strings Home Assistant may report.
StateStrings == {"on", "off", "On", "unavailable", "", "21.5", "-3"}

\* str::parse::<f32> on a state string: the strings that are numbers.
parse_f32(str) ==
    IF str \in {"21.5", "-3"} THEN [ok |-> TRUE, val |-> str] ELSE [ok |-> FALSE]

\* ColorMode, and the number of values Color::from_slice asks of each mode
\* (0 for the modes it makes no Color of).
ColorModes == {"rgbww", "rgbw", "rgb", "hs", "xy", "color_temp", "brightness", "onoff"}
ColorLen(mode) ==
    CASE mode = "rgbww" -> 5 [] mode = "rgbw" -> 4 [] mode = "rgb" -> 3
      [] mode = "hs" -> 2 [] mode = "xy" -> 2 [] OTHER -> 0

\* The mappings: a sensor under a key, binary or not, and a light.
CapMappings ==
    {[kind |-> "Sensor", key |-> "motion", binary |-> TRUE],
     [kind |-> "Sensor", key |-> "temperature", binary |-> FALSE],
     [kind |-> "Light", key |-> "", binary |-> FALSE]}

\* A step of propagate_state that can fail: a registry lookup or a publish.
Lookup(cap) == [publish |-> FALSE, capability |-> cap]
DataPublish(cap, rest, prop, value) ==
    [publish |-> TRUE, capability |-> cap, rest |-> rest, prop |-> prop, value |-> value]

\* Brightness(brightness as f32)
brightness_value(brightness) == [num |-> brightness, den |-> 1]

\* The color_list handed to Color::from_slice: the attribute of the mode,
\* or the empty slice.
color_list_len(state) ==
    IF state.color_present THEN ColorLen(state.color_mode.val) ELSE 0

\* Color::from_slice(color_mode, color_list)
from_slice(mode, len) ==
    IF ColorLen(mode) > 0 /\ len = ColorLen(mode) THEN Some(mode) ELSE NoneV

\* The binary match telling 'On' as true too.
binary_value_any_case(str) ==
    IF str \in {"on", "On"} THEN Some("true")
    ELSE IF str = "off" THEN Some("false") ELSE NoneV

\* match state.state.as_str() { "on" => true, "off" => false, _ => return }
binary_value(str) ==
    IF str = "on" THEN Some("true")
    ELSE IF str = "off" THEN Some("false") ELSE NoneV

\* The Sensor arm: the lookup, then the publish under the key unless the
\* state is dropped.
sensor_steps(mapping, state) ==
    LET parsed == parse_f32(state.state)
        value == IF mapping.binary THEN binary_value(state.state)
                 ELSE (IF parsed.ok THEN Some(parsed.val) ELSE NoneV)
    IN <<Lookup(SENSOR)>> \o
       (IF value.some
        THEN <<DataPublish(SENSOR, mapping.key, "SensorPayload",
                           [value |-> value.val, unit |-> state.unit])>>
        ELSE <<>>)

\* The Light arm: the on_off lookup, On(on), and for a light that is on the
\* light lookup, the brightness when there is one and the color when the
\* mode has one.
light_steps(state) ==
    LET on == state.state = "on"
        color == IF state.color_mode.some /\ state.color_mode.val # "brightness"
                 THEN from_slice(state.color_mode.val, color_list_len(state))
                 ELSE NoneV
    IN IF state.state \notin {"on", "off"} THEN <<Lookup(ON_OFF)>>
       ELSE <<Lookup(ON_OFF), DataPublish(ON_OFF, "on", "On", on)>> \o
            (IF on
             THEN <<Lookup(LIGHT)>> \o
                  (IF state.brightness.some
                   THEN <<DataPublish(LIGHT, "brightness", "Brightness",
                                      brightness_value(state.brightness.val))>>
                   ELSE <<>>) \o
                  (IF color.some
                   THEN <<DataPublish(LIGHT, "color", "ColorProperty", color.val)>>
                   ELSE <<>>)
             ELSE <<>>)

\* The steps propagate_state takes when none fails.
propagate_steps(mapping, state) ==
    IF mapping.kind = "Sensor" THEN sensor_steps(mapping, state) ELSE light_steps(state)

\* CapMapping::propagate_state: the steps in order; a failing lookup or
\* publish returns its error with `?` (or as the value of the call) after
\* the publishes made before it.
propagate_state ==
    /\ ~ps_out.done
    /\ LET steps == propagate_steps(ps_mapping, ps_state) IN
       \E k \in 0..Len(steps) :
            ps_out' = [done |-> TRUE, ok |-> k = Len(steps), steps |-> k,
                       published |-> SelectSeq(SubSeq(steps, 1, k), LAMBDA st : st.publish)]
    /\ UNCHANGED <<ps_mapping, ps_state>>
    /\ UNCHANGED <<coreVars, registryVars, connectVars, hassVars, besidePropagate>>

\* The states propagated: a sensor state with its unit, or a light state
\* with its brightness, color mode and the color attribute of that mode.
PropagateInit ==
    /\ ConnectionInit
    /\ TopicIdle
    /\ ExtIdleButColor
    /\ PureIdleExcept({"propagate"})
    /\ ps_out = PsNotDone
    /\ ps_mapping \in CapMappings
    /\ \E str \in StateStrings :
        IF ps_mapping.kind = "Sensor"
        THEN \E unit \in {"", "C"} :
                ps_state = [state |-> str, unit |-> unit, brightness |-> NoneV,
                            color_mode |-> NoneV, color_present |-> FALSE]
        ELSE \E b \in {NoneV} \cup {Some(v) : v \in 0..(U8 - 1)},
                m \in {NoneV} \cup {Some(c) : c \in ColorModes},
                present \in BOOLEAN :
                ps_state = [state |-> str, unit |-> "", brightness |-> b,
                            color_mode |-> m, color_present |-> present]

PropagateNext == propagate_state

SpecPropagate == PropagateInit /\ [][PropagateNext]_vars

\* propagate_state ran to its end.
Propagated == ps_out.done /\ ps_out.ok

\* C23: every state 'on' or 'off' propagated through a Light mapping gives
\* exactly two data publishes: On(on) on tanuki.on_off under 'on', and one
\* composite LightState{on, brightness, color} on tanuki.light under
\* 'state', when on is true and when it is false.
C23_LightTwoPublishes ==
    (Propagated /\ ps_mapping.kind = "Light" /\ ps_state.state \in {"on", "off"}) =>
        /\ Len(ps_out.published) = 2
        /\ ps_out.published[1].capability = ON_OFF
        /\ ps_out.published[1].rest = "on"
        /\ ps_out.published[1].value = (ps_state.state = "on")
        /\ ps_out.published[2].capability = LIGHT
        /\ ps_out.published[2].rest = "state"
        /\ ps_out.published[2].prop = "LightState"

\* C24: the brightness published for a propagated light state is
\* attributes.brightness / 254 kept within [0, 1], for every brightness
\* 0..255.
C24_BrightnessScaled ==
    Propagated =>
        \A i \in 1..Len(ps_out.published) :
            ps_out.published[i].prop = "Brightness" =>
                LET v == ps_out.published[i].value
                    b == ps_state.brightness.val
                IN v.num * 254 = v.den * (IF b > 254 THEN 254 ELSE b)

\* The state is one the Sensor arm drops: not 'on' or 'off' for a binary
\* mapping, no number for another.
Dropped ==
    /\ ps_mapping.kind = "Sensor"
    /\ IF ps_mapping.binary THEN ps_state.state \notin {"on", "off"}
       ELSE ps_state.state \notin {"21.5", "-3"}

\* The SensorPayload published under the key of the mapping.
PayloadOf(value) ==
    <<DataPublish(SENSOR, ps_mapping.key, "SensorPayload",
                  [value |-> value, unit |-> ps_state.unit])>>

MaxCommands == 3   \* messages received on the command topic in a run

HASS_ID == "light.north_light"

\* EntityServiceMapping { hass_id, service }
ServiceMappings ==
    {[hass_id |-> HASS_ID, service |-> "OnOff", domain |-> "switch"],
     [hass_id |-> HASS_ID, service |-> "OnOff", domain |-> "light"],
     [hass_id |-> HASS_ID, service |-> "Light", domain |-> ""]}

\* The payloads on a command topic: the OnOffCommand values, LightCommand
\* values with and without a color, and a payload that decodes as neither.
OnOffCommands == {[cmd |-> c] : c \in {"on", "off", "toggle"}}
LightCommands ==
    [on : BOOLEAN, color : {NoneV, Some("Rgb"), Some("Hs")}]
NoCommand == [garbage |-> "dim"]
CommandPayloads == OnOffCommands \cup LightCommands \cup {NoCommand}

\* serde_json::from_value::<T>(ev.payload), T the command type of the
\* listener.
decodes(mapping, payload) ==
    IF mapping.service = "OnOff" THEN payload \in OnOffCommands
    ELSE payload \in LightCommands

\* Color::hass_service_data_key
hass_service_data_key(color) ==
    CASE color = "Rgbww" -> "rgbww_color" [] color = "Rgbw" -> "rgbw_color"
      [] color = "Rgb" -> "rgb_color" [] color = "Hs" -> "hs_color"
      [] color = "Xy" -> "xy_color"

Null == [null |-> TRUE]

\* The ServiceCall the listener builds, targeted at the hass_id.
service_call(mapping, cmd) ==
    IF mapping.service = "OnOff"
    THEN [domain |-> mapping.domain,
          service |-> CASE cmd.cmd = "on" -> "turn_on" [] cmd.cmd = "off" -> "turn_off"
                        [] cmd.cmd = "toggle" -> "toggle",
          service_data |-> Null,
          target |-> mapping.hass_id]
    ELSE [domain |-> "light",
          service |-> IF cmd.on THEN "turn_on" ELSE "turn_off",
          service_data |-> IF cmd.on /\ cmd.color.some
                           THEN [null |-> FALSE,
                                 key |-> hass_service_data_key(cmd.color.val),
                                 values |-> cmd.color.val]
                           ELSE Null,
          target |-> mapping.hass_id]

\* bridge: entity.listen(move |cmd| ..) for the mapping.
install_listener ==
    /\ cmd_mapping = <<>>
    /\ cmd_mapping' \in ServiceMappings
    /\ cmd_registered' = TRUE
    /\ UNCHANGED cmd_log
    /\ UNCHANGED <<coreVars, registryVars, connectVars, hassVars, besideCommand>>

\* A PUBLISH on the command topic reaches handle(): the handler boxed by
\* TanukiCapability::listen decodes the payload and calls the listener,
\* which hands one call to HomeAssistant::call_service; a payload that does
\* not decode makes the handler return false and handle() removes it.  With
\* no handler registered nothing is called.
on_command ==
    /\ cmd_mapping # <<>>
    /\ Len(cmd_log) < MaxCommands
    /\ \E payload \in CommandPayloads :
        LET ok == decodes(cmd_mapping, payload)
            calls == IF cmd_registered /\ ok
                     THEN <<service_call(cmd_mapping, payload)>> ELSE <<>>
        IN
        /\ cmd_log' = Append(cmd_log, [payload |-> payload, calls |-> calls])
        /\ cmd_registered' = (cmd_registered /\ ok)
    /\ UNCHANGED cmd_mapping
    /\ UNCHANGED <<coreVars, registryVars, connectVars, hassVars, besideCommand>>

CommandInit ==
    /\ ConnectionInit
    /\ TopicIdle
    /\ ExtIdleButColor
    /\ PureIdleExcept({"command"})
    /\ CommandIdle

CommandNext == install_listener \/ on_command

SpecCommand == CommandInit /\ [][CommandNext]_vars

\* C30: every command received on a to_hass mapping made exactly one
\* call_service for the hass_id: turn_on, turn_off or toggle on the
\* configured domain for OnOff; for Light, turn_on in domain light with the
\* color under its key when on is true and a color is present, null service
\* data otherwise, and turn_off with null service data when on is false.
C30_OneCallPerCommand ==
    \A i \in 1..Len(cmd_log) :
        decodes(cmd_mapping, cmd_log[i].payload) =>
            LET cmd == cmd_log[i].payload IN
            /\ Len(cmd_log[i].calls) = 1
            /\ cmd_log[i].calls[1].target = HASS_ID
            /\ cmd_mapping.service = "OnOff" =>
                /\ cmd_log[i].calls[1].domain = cmd_mapping.domain
                /\ cmd_log[i].calls[1].service_data = Null
                /\ cmd.cmd = "on" => cmd_log[i].calls[1].service = "turn_on"
                /\ cmd.cmd = "off" => cmd_log[i].calls[1].service = "turn_off"
                /\ cmd.cmd = "toggle" => cmd_log[i].calls[1].service = "toggle"
            /\ cmd_mapping.service = "Light" =>
                /\ cmd_log[i].calls[1].domain = "light"
                /\ cmd_log[i].calls[1].service = (IF cmd.on THEN "turn_on" ELSE "turn_off")
                /\ (cmd.on /\ cmd.color.some) <=> ~cmd_log[i].calls[1].service_data.null

====
